---- MODULE Spec2Model ----
(***************************************************************************)
(* A model of gokube: the etcd-backed ListWatch loop (pkg/listwatch), the  *)
(* Pod / Node / ReplicaSet registries over EtcdStorage (pkg/registry,      *)
(* pkg/storage), the replica-set controller's Reconcile (pkg/controller),  *)
(* the scheduler, the pod handlers of the API server (pkg/api/handlers),   *)
(* the kubelet's registration and poll loop (pkg/kubelet),                 *)
(* EtcdStorage.Watch, the retry package (pkg/retry) and the API server's   *)
(* reads and creations over a store whose Get can fail.                    *)
(***************************************************************************)
EXTENDS Integers, Sequences, FiniteSets, TLC

(***************************************************************************)
(* Bounds of the model.                                                    *)
(***************************************************************************)
MaxCommits == 3         \* commits the environment makes to the watched prefix
MaxFailures == 1        \* stream failures / store outages injected
EventChannelBuffer == 1 \* Options.EventChannelBuffer of the instance under test
MaxReplicas == 1        \* spec.replicas of the replica sets the callers write
MaxContainers == 1      \* containers of the pod template of a replica set
MaxPods == 2            \* pods the controller creates
MaxBurst == 102         \* commits of the writer that overruns the session's buffer

\* Options.RetryOpts of the instance under test
InitialDelay == 1
MaxDelay == 4
Multiplier == 2

(***************************************************************************)
(* Program constants.                                                      *)
(***************************************************************************)
defaultErrorRetryAttempts == 3
WatchBufferSize == 100

KeyOrder == <<"k1">>   \* the store's lexicographic key order
Keys == {KeyOrder[i] : i \in 1..Len(KeyOrder)}

NoKV == [value |-> 0, createRev |-> 0, modRev |-> 0]

VARIABLES
    \* ---- etcd (the watched prefix) ----
    kv,          \* key -> [value, createRev, modRev] or NoKV
    rev,         \* store revision (Header.Revision)
    log,         \* committed events, log[i] is the event of revision i + 1
    storeUp,     \* whether the store answers
    outages,     \* failures injected so far
    \* ---- ListWatch instance and its loop goroutine ----
    etcdCli,     \* lw.etcdCli: "nil", "open" or "closed" (closed, not nil)
    ctxDone,     \* the watchCtx of ListAndWatch is cancelled
    pc,          \* position of runListWatchLoop
    ch,          \* the events channel (buffered)
    chClosed,    \* close(ch) happened
    doneClosed,  \* close(done) happened
    existing,    \* list events still to send (listAndSendExisting)
    errI,        \* attempt index of the loop's tryToSendErrorEvent
    errNext,     \* what the loop does after tryToSendErrorEvent
    hwcI,        \* attempt index of handleWatchChannelClose
    currentDelay,\* WithExponentialBackoff's currentDelay
    \* ---- one watch session ----
    wchan,       \* etcd WatchChan: "none", "open", "err" (error response queued), "closed"
    wNext,       \* next revision the WatchChan delivers
    wbuf,        \* the session's internal buffered channel
    wbufClosed,  \* the converter goroutine closed it
    conv,        \* converter goroutine of Watch: "none", "run", "done"
    notif,       \* session -> state of its connection-lost notifier goroutine ("none": not running)
    sessions,    \* watch sessions started so far
    listRev,     \* revision of the response of the last successful List
    watchRev,    \* revision the current watch started from (R + 1)
    panicked,    \* a goroutine panicked (send on closed channel): the process died
    \* ---- the caller / consumer ----
    cancelPc,    \* the caller's use of the cancel function
    lastEv,      \* key -> the last data event the consumer received (NoEv: none)
    errRecv,     \* Error events the consumer received (capped)
    errFull,     \* an attempt to send an Error event found the channel full
    lostAt       \* the store's revision when the last failure hit

\* ---- the registries over one storage ----
VARIABLES
    st,          \* the store under the registry prefixes: key -> encoded object
    regKind,     \* the kind of the registry instance the callers use
    mu,          \* kind -> the caller that holds the registry's write lock (0: free)
    th,          \* caller -> its registry call in progress
    overlap,     \* the callers' current calls overlap in time
    absMap,      \* the name-to-object map the registry is meant to be
    rc,          \* the replica set controller: its position in Run / Reconcile
    podSeq,      \* suffixes the name generator has handed out
    lastRun,     \* the outcome of the last Reconcile, while nobody else has written since
    sc,          \* the scheduler: its position in schedulePendingPods
    nodeSeen,    \* a node has been registered since the start
    apiSrv,      \* the API server: reachable or not, and what the last handler wrote
    kubelet,     \* the kubelet of one node: Start, watchPods, its runPod goroutines
    sw,          \* one EtcdStorage.Watch of the watched prefix
    bo           \* one call of retry.WithExponentialBackoff

nodeVars == <<apiSrv, kubelet, sw, bo>>

regVars == <<st, regKind, mu, th, overlap, absMap, rc, podSeq, lastRun, sc, nodeSeen,
             nodeVars>>

lwVars == <<kv, rev, log, storeUp, outages, etcdCli, ctxDone, pc, ch, chClosed,
            doneClosed, existing, errI, errNext, hwcI, currentDelay, wchan, wNext,
            wbuf, wbufClosed, conv, notif, sessions, listRev, watchRev, panicked,
            cancelPc, lastEv, errRecv, errFull, lostAt>>

vars == <<lwVars, regVars>>

MaxSessions == MaxFailures + 1

(***************************************************************************)
(* etcd: puts, deletes and the events they commit.                         *)
(***************************************************************************)
PutKV(k, v) ==
    IF kv[k] = NoKV
    THEN [value |-> v, createRev |-> rev + 1, modRev |-> rev + 1]
    ELSE [value |-> v, createRev |-> kv[k].createRev, modRev |-> rev + 1]

EtcdPut(k, v) ==
    /\ kv' = [kv EXCEPT ![k] = PutKV(k, v)]
    /\ rev' = rev + 1
    /\ log' = Append(log, [type |-> "PUT", key |-> k, value |-> v,
                           createRev |-> PutKV(k, v).createRev, modRev |-> rev + 1,
                           hadPrev |-> kv[k] # NoKV, prev |-> kv[k].value])

EtcdDelete(k) ==
    /\ kv' = [kv EXCEPT ![k] = NoKV]
    /\ rev' = rev + 1
    /\ log' = Append(log, [type |-> "DELETE", key |-> k, value |-> 0,
                           createRev |-> 0, modRev |-> rev + 1, hadPrev |-> TRUE,
                           prev |-> kv[k].value])

(***************************************************************************)
(* Events of the listwatch package.                                        *)
(***************************************************************************)
Event(t, k, v, withPrefix, r, src, s) ==
    [type |-> t, key |-> k, value |-> v, prefix |-> withPrefix,
     rev |-> r, src |-> src, sess |-> s]

\* Event{Type: Error, Value: []byte(errMsg)}: no Key, no Prefix
ErrorEvent == Event("ERROR", "", 0, FALSE, 0, "err", 0)

NoEv == Event("NONE", "", 0, FALSE, 0, "none", 0)

validate(e) ==
    /\ e.type # ""
    /\ ~(e.key = "" /\ e.type # "ERROR")
    /\ e.prefix

\* List: one event per key-value of the Get response, in key order
ListEventType(r) == IF r.createRev # r.modRev THEN "MODIFIED" ELSE "ADDED"

\* a faulty List that reports no key
ListNothing == <<>>

ListEvents ==
    LET present == SelectSeq(KeyOrder, LAMBDA k : kv[k] # NoKV)
    IN  [i \in 1..Len(present) |->
            Event(ListEventType(kv[present[i]]), present[i], kv[present[i]].value,
                  TRUE, kv[present[i]].modRev, "list", sessions + 1)]

\* a faulty conversion: every put is reported as a modification
WatchEventTypeNoCreate(e) == IF e.type = "PUT" THEN "MODIFIED" ELSE "DELETED"

\* Watch: the conversion of one etcd event
WatchEventType(e) ==
    IF e.type = "PUT"
    THEN IF e.createRev = e.modRev THEN "ADDED" ELSE "MODIFIED"
    ELSE "DELETED"

WatchEvent(e) == Event(WatchEventType(e), e.key, e.value, TRUE, e.modRev, "watch", sessions)

\* Watch: the revision the store watch starts from, given the two Get responses
WatchStartRev(listed, current) == current + 1

\* a channel that takes every send
HasRoomAlways == TRUE

HasRoom == Len(ch) < EventChannelBuffer

(***************************************************************************)
(* Helpers shared by the goroutines.                                       *)
(***************************************************************************)
\* what closing the etcd client does to a WatchChan made from it
ClosedChan(w) == IF w \in {"open", "err"} THEN "closed" ELSE w

\* context cancellation of a session's watchCtx wakes its notifier goroutine
Wake(n, s) == [n EXCEPT ![s] = IF n[s] = "wait" THEN "chk" ELSE n[s]]

WakeAll(n) == [s \in DOMAIN n |-> IF n[s] = "wait" THEN "chk" ELSE n[s]]

\* a faulty closeEtcdClient that leaves the client as it is
closeEtcdClientNoClose == UNCHANGED <<etcdCli, wchan>>

\* closeEtcdClient: Close and set to nil
closeEtcdClient ==
    /\ etcdCli' = "nil"
    /\ wchan' = IF etcdCli = "open" THEN ClosedChan(wchan) ELSE wchan

\* the cancel function returned by Watch: Close, the field stays non-nil
watchCancel ==
    /\ etcdCli' = IF etcdCli = "nil" THEN "nil" ELSE "closed"
    /\ wchan' = IF etcdCli = "open" THEN ClosedChan(wchan) ELSE wchan

\* the deferred calls of watchAndForwardEvents: watchCtxCancel, then watchCancel
WatchExit ==
    /\ notif' = Wake(notif, sessions)
    /\ watchCancel
    /\ pc' = "backoff"

\* a Get of the prefix answers iff the client is open, the store is up and ctx lives
GetAnswers == etcdCli = "open" /\ storeUp /\ ~ctxDone

loopFixed == <<regVars, kv, rev, log, storeUp, outages, ctxDone, panicked, cancelPc,
               lastEv, errRecv, lostAt>>

sessFixed == <<wNext, wbuf, wbufClosed, conv, sessions, watchRev>>

\* the loop calls tryToSendErrorEvent and then goes on with `next`
StartTryErr(next) ==
    /\ pc' = "try_err"
    /\ errI' = 0
    /\ errNext' = next

(***************************************************************************)
(* runListWatchLoop.                                                       *)
(***************************************************************************)
\* for { if ctx.Err() != nil { return } ; retry.WithExponentialBackoff(...) }
LoopTop ==
    /\ pc = "top" /\ ~panicked
    /\ IF ctxDone
       THEN pc' = "cleanup" /\ UNCHANGED currentDelay
       ELSE pc' = "connect" /\ currentDelay' = InitialDelay
    /\ UNCHANGED <<etcdCli, ch, chClosed, doneClosed, existing, errI, errNext, hwcI,
                   wchan, notif, listRev, errFull>>
    /\ UNCHANGED sessFixed /\ UNCHANGED loopFixed

\* ensureConnected
Connect ==
    /\ pc = "connect" /\ ~panicked
    /\ \/ /\ etcdCli # "nil"
          /\ pc' = "list"
          /\ UNCHANGED <<etcdCli, errI, errNext>>
       \/ /\ etcdCli = "nil"
          /\ etcdCli' = "open"
          /\ pc' = "list"
          /\ UNCHANGED <<errI, errNext>>
       \/ /\ etcdCli = "nil" /\ ~storeUp
          /\ StartTryErr("backoff")
          /\ UNCHANGED etcdCli
    /\ UNCHANGED <<ch, chClosed, doneClosed, existing, hwcI, currentDelay,
                   wchan, notif, listRev, errFull>>
    /\ UNCHANGED sessFixed /\ UNCHANGED loopFixed

\* listAndSendExisting: the List call
ListGet ==
    /\ pc = "list" /\ ~panicked
    /\ IF GetAnswers
       THEN /\ existing' = ListEvents
            /\ listRev' = rev
            /\ pc' = IF ListEvents = <<>> THEN "watch_get" ELSE "list_send"
            /\ UNCHANGED <<errI, errNext>>
       ELSE /\ StartTryErr("close_cli")
            /\ UNCHANGED <<existing, listRev>>
    /\ UNCHANGED <<etcdCli, ch, chClosed, doneClosed, hwcI, currentDelay,
                   wchan, notif, errFull>>
    /\ UNCHANGED sessFixed /\ UNCHANGED loopFixed

\* listAndSendExisting: sendEvent of the next listed event
ListSend ==
    /\ pc = "list_send" /\ ~panicked
    /\ \/ /\ HasRoom
          /\ ch' = Append(ch, Head(existing))
          /\ existing' = Tail(existing)
          /\ pc' = IF Tail(existing) = <<>> THEN "watch_get" ELSE "list_send"
       \/ /\ ctxDone
          /\ existing' = <<>>
          /\ pc' = "backoff"
          /\ UNCHANGED ch
    /\ UNCHANGED <<etcdCli, chClosed, doneClosed, errI, errNext, hwcI, currentDelay,
                   wchan, notif, listRev, errFull>>
    /\ UNCHANGED sessFixed /\ UNCHANGED loopFixed

\* watchAndForwardEvents: the call of Watch (its Get, the store watch, the goroutines)
WatchGet ==
    /\ pc = "watch_get" /\ ~panicked
    /\ IF GetAnswers
       THEN /\ watchRev' = WatchStartRev(listRev, rev)
            /\ wNext' = WatchStartRev(listRev, rev)
            /\ wchan' = "open"
            /\ wbuf' = <<>>
            /\ wbufClosed' = FALSE
            /\ conv' = "run"
            /\ sessions' = sessions + 1
            /\ notif' = [notif EXCEPT ![sessions + 1] = "wait"]
            /\ pc' = "watching"
            /\ UNCHANGED <<errI, errNext>>
       ELSE /\ StartTryErr("close_cli")
            /\ UNCHANGED <<wchan, notif>>
            /\ UNCHANGED sessFixed
    /\ UNCHANGED <<etcdCli, ch, chClosed, doneClosed, existing, hwcI, currentDelay,
                   listRev, errFull>>
    /\ UNCHANGED loopFixed

\* watchAndForwardEvents: case <-ctx.Done()
WatchCtxDone ==
    /\ pc = "watching" /\ ~panicked
    /\ ctxDone
    /\ StartTryErr("watch_exit")
    /\ UNCHANGED <<etcdCli, ch, chClosed, doneClosed, existing, hwcI, currentDelay,
                   wchan, notif, listRev, errFull>>
    /\ UNCHANGED sessFixed /\ UNCHANGED loopFixed

\* watchAndForwardEvents: case event := <-watchCh, then sendEvent
Forward ==
    /\ pc = "watching" /\ ~panicked
    /\ wbuf # <<>>
    /\ wbuf' = Tail(wbuf)
    /\ \/ /\ validate(Head(wbuf)) /\ HasRoom
          /\ ch' = Append(ch, Head(wbuf))
          /\ UNCHANGED <<pc, etcdCli, wchan, notif>>
       \/ /\ validate(Head(wbuf)) /\ ctxDone
          /\ WatchExit
          /\ UNCHANGED ch
       \/ /\ ~validate(Head(wbuf))
          /\ WatchExit
          /\ UNCHANGED ch
    /\ UNCHANGED <<chClosed, doneClosed, existing, errI, errNext, hwcI, currentDelay,
                   listRev, errFull, wNext, wbufClosed, conv, sessions, watchRev>>
    /\ UNCHANGED loopFixed

\* watchAndForwardEvents: the watch channel is closed: watchCtxCancel, handleWatchChannelClose
WatchClosed ==
    /\ pc = "watching" /\ ~panicked
    /\ wbuf = <<>> /\ wbufClosed
    /\ notif' = Wake(notif, sessions)
    /\ pc' = "hwc"
    /\ hwcI' = 0
    /\ UNCHANGED <<etcdCli, ch, chClosed, doneClosed, existing, errI, errNext,
                   currentDelay, wchan, listRev, errFull>>
    /\ UNCHANGED sessFixed /\ UNCHANGED loopFixed

\* handleWatchChannelClose: one round of its three-round select
HandleWatchChannelClose ==
    /\ pc = "hwc" /\ ~panicked
    /\ \/ /\ HasRoom
          /\ ch' = Append(ch, ErrorEvent)
          /\ closeEtcdClient
          /\ pc' = "backoff"
          /\ UNCHANGED <<hwcI, errFull>>
       \/ /\ ctxDone
          /\ watchCancel
          /\ pc' = "backoff"
          /\ UNCHANGED <<ch, hwcI, errFull>>
       \/ /\ ~HasRoom /\ ~ctxDone
          /\ errFull' = TRUE
          /\ IF hwcI + 1 < 3
             THEN hwcI' = hwcI + 1 /\ UNCHANGED <<pc, etcdCli, wchan>>
             ELSE hwcI' = 0 /\ closeEtcdClient /\ pc' = "backoff"
          /\ UNCHANGED ch
    /\ UNCHANGED <<chClosed, doneClosed, existing, errI, errNext, currentDelay,
                   notif, listRev>>
    /\ UNCHANGED sessFixed /\ UNCHANGED loopFixed

\* what the loop does when its tryToSendErrorEvent has returned
AfterTryErr ==
    /\ errI' = 0
    /\ errNext' = "backoff"
    /\ CASE errNext = "close_cli" ->
              closeEtcdClient /\ pc' = "backoff" /\ UNCHANGED notif
         [] errNext = "watch_exit" ->
              WatchExit
         [] errNext = "cleanup_close" ->
              pc' = "cleanup_close" /\ UNCHANGED <<etcdCli, wchan, notif>>
         [] OTHER ->
              pc' = "backoff" /\ UNCHANGED <<etcdCli, wchan, notif>>

\* a faulty tryToSendErrorEvent whose select has no default case
TryToSendErrorEventBlocking ==
    /\ pc = "try_err" /\ ~panicked
    /\ \/ /\ HasRoom
          /\ ch' = Append(ch, ErrorEvent)
          /\ AfterTryErr
       \/ /\ ctxDone
          /\ AfterTryErr
          /\ UNCHANGED ch
    /\ UNCHANGED <<chClosed, doneClosed, existing, hwcI, currentDelay, listRev, errFull>>
    /\ UNCHANGED sessFixed /\ UNCHANGED loopFixed

\* tryToSendErrorEvent in the loop goroutine: one attempt of retry.WithRetries
TryToSendErrorEvent ==
    /\ pc = "try_err" /\ ~panicked
    /\ \/ /\ HasRoom                       \* case ch <- Event{Type: Error}
          /\ ch' = Append(ch, ErrorEvent)
          /\ AfterTryErr
          /\ UNCHANGED errFull
       \/ /\ ~HasRoom /\ ~ctxDone          \* default: "channel full", wait, next attempt
          /\ errFull' = TRUE
          /\ IF errI + 1 < defaultErrorRetryAttempts
             THEN errI' = errI + 1 /\ UNCHANGED <<pc, errNext, etcdCli, wchan, notif>>
             ELSE AfterTryErr
          /\ UNCHANGED ch
       \/ /\ ctxDone                       \* case <-ctx.Done(), in the attempt or the wait
          /\ AfterTryErr
          /\ UNCHANGED <<ch, errFull>>
    /\ UNCHANGED <<chClosed, doneClosed, existing, hwcI, currentDelay, listRev>>
    /\ UNCHANGED sessFixed /\ UNCHANGED loopFixed

\* retry.WithExponentialBackoff: the next delay
NextDelay(d) == IF d * Multiplier > MaxDelay THEN MaxDelay ELSE d * Multiplier

\* retry.WithExponentialBackoff: the select after a failed operation
Backoff ==
    /\ pc = "backoff" /\ ~panicked
    /\ \/ /\ ctxDone
          /\ pc' = "top"
          /\ UNCHANGED currentDelay
       \/ /\ currentDelay' = NextDelay(currentDelay)
          /\ pc' = "connect"
    /\ UNCHANGED <<etcdCli, ch, chClosed, doneClosed, existing, errI, errNext, hwcI,
                   wchan, notif, listRev, errFull>>
    /\ UNCHANGED sessFixed /\ UNCHANGED loopFixed

\* handleCleanup: closeEtcdClient, then the best-effort cancellation event
Cleanup ==
    /\ pc = "cleanup" /\ ~panicked
    /\ closeEtcdClient
    /\ IF ctxDone
       THEN StartTryErr("cleanup_close")
       ELSE pc' = "cleanup_close" /\ UNCHANGED <<errI, errNext>>
    /\ UNCHANGED <<ch, chClosed, doneClosed, existing, hwcI, currentDelay,
                   notif, listRev, errFull>>
    /\ UNCHANGED sessFixed /\ UNCHANGED loopFixed

\* handleCleanup: close(ch)
CleanupCloseCh ==
    /\ pc = "cleanup_close" /\ ~panicked
    /\ chClosed' = TRUE
    /\ pc' = "cleanup_done"
    /\ UNCHANGED <<etcdCli, ch, doneClosed, existing, errI, errNext, hwcI, currentDelay,
                   wchan, notif, listRev, errFull>>
    /\ UNCHANGED sessFixed /\ UNCHANGED loopFixed

\* handleCleanup: close(done); the goroutine ends
CleanupCloseDone ==
    /\ pc = "cleanup_done" /\ ~panicked
    /\ doneClosed' = TRUE
    /\ pc' = "exited"
    /\ UNCHANGED <<etcdCli, ch, chClosed, existing, errI, errNext, hwcI, currentDelay,
                   wchan, notif, listRev, errFull>>
    /\ UNCHANGED sessFixed /\ UNCHANGED loopFixed

LoopStep ==
    \/ LoopTop \/ Connect \/ ListGet \/ ListSend \/ WatchGet \/ WatchCtxDone
    \/ Forward \/ WatchClosed \/ HandleWatchChannelClose \/ TryToSendErrorEvent
    \/ Backoff \/ Cleanup \/ CleanupCloseCh \/ CleanupCloseDone

(***************************************************************************)
(* The goroutine started by Watch: etcd events into the session's buffer.  *)
(***************************************************************************)
convFixed == <<regVars, kv, rev, log, storeUp, outages, etcdCli, ctxDone, pc, ch, chClosed,
               doneClosed, existing, errI, errNext, hwcI, currentDelay, notif,
               sessions, listRev, watchRev, panicked, cancelPc, lastEv, errRecv, errFull,
               lostAt>>

\* for watchResp := range watchChan { for _, event := range watchResp.Events { ch <- event } }
ConvDeliver ==
    /\ conv = "run" /\ ~panicked
    /\ wchan = "open" /\ storeUp
    /\ wNext <= rev
    /\ Len(wbuf) < WatchBufferSize
    /\ wbuf' = Append(wbuf, WatchEvent(log[wNext - 1]))
    /\ wNext' = wNext + 1
    /\ UNCHANGED <<wchan, wbufClosed, conv>>
    /\ UNCHANGED convFixed

\* if watchResp.Err() != nil { ch <- Event{Type: Error, ...}; return }  (defer close(ch))
ConvErr ==
    /\ conv = "run" /\ ~panicked
    /\ wchan = "err"
    /\ Len(wbuf) < WatchBufferSize
    /\ wbuf' = Append(wbuf, ErrorEvent)
    /\ wbufClosed' = TRUE
    /\ conv' = "done"
    /\ wchan' = "closed"
    /\ UNCHANGED wNext
    /\ UNCHANGED convFixed

\* the range over a closed WatchChan ends  (defer close(ch))
ConvClose ==
    /\ conv = "run" /\ ~panicked
    /\ wchan = "closed"
    /\ wbufClosed' = TRUE
    /\ conv' = "done"
    /\ UNCHANGED <<wchan, wNext, wbuf>>
    /\ UNCHANGED convFixed

\* ch <- event on a full buffer: the goroutine has taken the event of revision
\* wNext from the store watch and blocks in the send
ConvBlock ==
    /\ conv = "run" /\ ~panicked
    /\ wchan = "open" /\ storeUp
    /\ wNext <= rev
    /\ Len(wbuf) = WatchBufferSize
    /\ conv' = "blocked"
    /\ UNCHANGED <<wchan, wNext, wbuf, wbufClosed>>
    /\ UNCHANGED convFixed

\* the blocked send goes through once the buffer has room
ConvUnblock ==
    /\ conv = "blocked" /\ ~panicked
    /\ Len(wbuf) < WatchBufferSize
    /\ wbuf' = Append(wbuf, WatchEvent(log[wNext - 1]))
    /\ wNext' = wNext + 1
    /\ conv' = "run"
    /\ UNCHANGED <<wchan, wbufClosed>>
    /\ UNCHANGED convFixed

(***************************************************************************)
(* The goroutine of watchAndForwardEvents that reports a lost connection.  *)
(***************************************************************************)
notifFixed == <<regVars, kv, rev, log, storeUp, outages, etcdCli, ctxDone, pc, chClosed,
                doneClosed, existing, errI, errNext, hwcI, currentDelay, wchan, wNext,
                wbuf, wbufClosed, conv, sessions, listRev, watchRev, cancelPc,
                lastEv, errRecv, lostAt>>

\* <-watchCtx.Done(); if ctx.Err() == nil { tryToSendErrorEvent(...) }
NotifCheck(s) ==
    /\ notif[s] = "chk" /\ ~panicked
    /\ notif' = [notif EXCEPT ![s] = IF ctxDone THEN "none" ELSE "try0"]
    /\ UNCHANGED <<ch, panicked, errFull>>
    /\ UNCHANGED notifFixed

NotifAfterFail(n) == CASE n = "try0" -> "try1" [] n = "try1" -> "try2" [] OTHER -> "none"

\* tryToSendErrorEvent in the notifier goroutine: one attempt
NotifTry(s) ==
    /\ notif[s] \in {"try0", "try1", "try2"} /\ ~panicked
    /\ \/ /\ ~chClosed /\ HasRoom
          /\ ch' = Append(ch, ErrorEvent)
          /\ notif' = [notif EXCEPT ![s] = "none"]
          /\ UNCHANGED <<panicked, errFull>>
       \/ /\ chClosed                      \* send on a closed channel
          /\ panicked' = TRUE
          /\ UNCHANGED <<ch, notif, errFull>>
       \/ /\ ~chClosed /\ ~HasRoom /\ ~ctxDone
          /\ errFull' = TRUE
          /\ notif' = [notif EXCEPT ![s] = NotifAfterFail(notif[s])]
          /\ UNCHANGED <<ch, panicked>>
       \/ /\ ctxDone                       \* case <-ctx.Done(), in the attempt or the wait
          /\ notif' = [notif EXCEPT ![s] = "none"]
          /\ UNCHANGED <<ch, panicked, errFull>>
    /\ UNCHANGED notifFixed

(***************************************************************************)
(* The caller: it reads the events channel and uses the cancel function.   *)
(***************************************************************************)
\* event := <-eventCh
Receive ==
    /\ ~panicked
    /\ ch # <<>>
    /\ LET e == Head(ch) IN
        /\ ch' = Tail(ch)
        /\ lastEv' = IF e.type = "ERROR" THEN lastEv ELSE [lastEv EXCEPT ![e.key] = e]
        /\ errRecv' = IF e.type = "ERROR" THEN 1 ELSE errRecv
    /\ UNCHANGED <<regVars, kv, rev, log, storeUp, outages, etcdCli, ctxDone, pc, chClosed,
                   doneClosed, existing, errI, errNext, hwcI, currentDelay, wchan, wNext,
                   wbuf, wbufClosed, conv, notif, sessions, listRev, watchRev, panicked,
                   cancelPc, errFull, lostAt>>

callerFixed == <<regVars, kv, rev, log, storeUp, outages, etcdCli, pc, ch, chClosed,
                 doneClosed, existing, errI, errNext, hwcI, currentDelay, wNext,
                 wbuf, wbufClosed, conv, sessions, listRev, watchRev, panicked,
                 lastEv, errRecv, errFull, lostAt>>

\* cancel := func() { cancelWatch(); <-done }: the call of cancelWatch
CancelCall ==
    /\ ~panicked
    /\ cancelPc \in {"idle", "returned"}
    /\ cancelPc' = IF cancelPc = "idle" THEN "waiting" ELSE "waiting2"
    /\ ctxDone' = TRUE
    /\ notif' = WakeAll(notif)
    /\ wchan' = ClosedChan(wchan)
    /\ UNCHANGED callerFixed

\* cancel: <-done
CancelReturn ==
    /\ ~panicked
    /\ cancelPc \in {"waiting", "waiting2"}
    /\ doneClosed
    /\ cancelPc' = IF cancelPc = "waiting" THEN "returned" ELSE "returned2"
    /\ UNCHANGED <<ctxDone, notif, wchan>>
    /\ UNCHANGED callerFixed

(***************************************************************************)
(* The environment: writers of the prefix, and failures of the store.      *)
(***************************************************************************)
envFixed == <<regVars, etcdCli, ctxDone, pc, ch, chClosed, doneClosed, existing, errI, errNext,
              hwcI, currentDelay, wNext, wbuf, wbufClosed, conv, notif, sessions,
              listRev, watchRev, panicked, cancelPc, lastEv, errRecv, errFull>>

\* a writer puts a fresh value (values are numbered by the revision that wrote them)
Put(k) ==
    /\ storeUp /\ rev - 1 < MaxCommits
    /\ EtcdPut(k, rev + 1)
    /\ UNCHANGED <<storeUp, outages, wchan, lostAt>>
    /\ UNCHANGED envFixed

Delete(k) ==
    /\ storeUp /\ rev - 1 < MaxCommits
    /\ kv[k] # NoKV
    /\ EtcdDelete(k)
    /\ UNCHANGED <<storeUp, outages, wchan, lostAt>>
    /\ UNCHANGED envFixed

\* the store stops; an open store watch survives, is closed, or ends with an error
Outage(effect) ==
    /\ storeUp /\ outages < MaxFailures
    /\ storeUp' = FALSE
    /\ outages' = outages + 1
    /\ lostAt' = rev
    /\ wchan' = IF wchan = "open" THEN effect ELSE wchan
    /\ UNCHANGED <<kv, rev, log>>
    /\ UNCHANGED envFixed

\* the store watch alone fails (closed, or an error response such as a compaction)
StreamFail(effect) ==
    /\ wchan = "open" /\ outages < MaxFailures
    /\ effect # "open"
    /\ outages' = outages + 1
    /\ lostAt' = rev
    /\ wchan' = effect
    /\ UNCHANGED <<kv, rev, log, storeUp>>
    /\ UNCHANGED envFixed

\* a writer that, while a session watches, commits more events than the
\* session's buffer holds, each one after the session has taken the one before
BurstPut(k) ==
    /\ storeUp /\ rev - 1 < MaxBurst
    /\ pc = "watching" /\ ~ctxDone
    /\ wNext > rev
    /\ EtcdPut(k, rev + 1)
    /\ UNCHANGED <<storeUp, outages, wchan, lostAt>>
    /\ UNCHANGED envFixed

Recover ==
    /\ ~storeUp
    /\ storeUp' = TRUE
    /\ UNCHANGED <<kv, rev, log, outages, wchan, lostAt>>
    /\ UNCHANGED envFixed

(***************************************************************************)
(* API objects, their JSON form and their storage keys.                    *)
(***************************************************************************)
\* names and keys are sequences of tokens; "/" is the path separator; a pod's
\* nodeName is the name of a node (<<>>: the empty string)
Names == {<<"a">>, <<"b">>, <<"a", "/">>}

Kinds == {"Pod", "Node", "ReplicaSet"}

NoObj == [kind |-> "none"]

PodObj(name, nodeName, status) ==
    [kind |-> "Pod", name |-> name, nodeName |-> nodeName, status |-> status]

NodeObj(name, status) == [kind |-> "Node", name |-> name, status |-> status]

\* containers: the number of containers of spec.template
ReplicaSetObj(name, replicas, containers, statusReplicas) ==
    [kind |-> "ReplicaSet", name |-> name, replicas |-> replicas,
     containers |-> containers, statusReplicas |-> statusReplicas]

\* the objects a caller passes to Create and Update
Inputs(kind, name) ==
    CASE kind = "Pod" -> {PodObj(name, <<>>, ""), PodObj(name, <<"a">>, "Assigned")}
      [] kind = "Node" -> {NodeObj(name, ""), NodeObj(name, "Ready")}
      [] OTHER -> {ReplicaSetObj(name, r, c, 0) : r \in 0..MaxReplicas, c \in 1..MaxContainers}

\* runtime.Encode: the JSON document of the object; omitempty fields are left out
JsonFields(o) ==
    CASE o.kind = "Pod" -> {"name", "status"} \cup (IF o.nodeName = <<>> THEN {} ELSE {"nodeName"})
      [] o.kind = "Node" -> {"name"} \cup (IF o.status = "" THEN {} ELSE {"status"})
      [] OTHER -> {"name", "replicas", "containers", "statusReplicas"}

Encode(o) == [f \in JsonFields(o) |-> o[f]]

JsonField(doc, f, zero) == IF f \in DOMAIN doc THEN doc[f] ELSE zero

\* runtime.Decode into a zero object of the kind
Decode(kind, doc) ==
    CASE kind = "Pod" ->
            PodObj(JsonField(doc, "name", <<>>), JsonField(doc, "nodeName", <<>>),
                   JsonField(doc, "status", ""))
      [] kind = "Node" ->
            NodeObj(JsonField(doc, "name", <<>>), JsonField(doc, "status", ""))
      [] OTHER ->
            ReplicaSetObj(JsonField(doc, "name", <<>>), JsonField(doc, "replicas", 0),
                          JsonField(doc, "containers", 0),
                          JsonField(doc, "statusReplicas", 0))

podPrefix == <<"/", "pods", "/">>

nodePrefix == <<"/", "registry", "/", "nodes", "/">>

rsPrefix == <<"/", "replicasets", "/">>

\* path.Clean of a rooted path, on its segments: empty and "." segments go, ".." pops
RECURSIVE CleanSegments(_, _, _)
CleanSegments(p, seg, stack) ==
    LET push == IF seg = <<>> \/ seg = <<".">> THEN stack
                ELSE IF seg = <<"..">>
                     THEN (IF stack = <<>> THEN stack ELSE SubSeq(stack, 1, Len(stack) - 1))
                     ELSE Append(stack, seg)
    IN  IF p = <<>> THEN push
        ELSE IF Head(p) = "/" THEN CleanSegments(Tail(p), <<>>, push)
        ELSE CleanSegments(Tail(p), Append(seg, Head(p)), stack)

RECURSIVE JoinSegments(_)
JoinSegments(stack) ==
    IF stack = <<>> THEN <<>> ELSE <<"/">> \o Head(stack) \o JoinSegments(Tail(stack))

Clean(p) ==
    LET stack == CleanSegments(p, <<>>, <<>>)
    IN  IF stack = <<>> THEN <<"/">> ELSE JoinSegments(stack)

\* generateKey: path.Join(prefix, name)
generateKey(prefix, name) ==
    IF name = <<>> THEN Clean(prefix) ELSE Clean(prefix \o <<"/">> \o name)

\* the storage key a registry uses for a name
Key(kind, name) ==
    CASE kind = "Pod" -> podPrefix \o name
      [] kind = "Node" -> generateKey(nodePrefix, name)
      [] OTHER -> rsPrefix \o name

(***************************************************************************)
(* EtcdStorage over the store.                                             *)
(***************************************************************************)
EmptyMap == [k \in {} |-> NoObj]

MapPut(m, k, v) == [x \in DOMAIN m \cup {k} |-> IF x = k THEN v ELSE m[x]]

MapDelete(m, k) == [x \in DOMAIN m \ {k} |-> m[x]]

\* a faulty Get that never finds the key
StorageFoundNever(key) == FALSE

\* EtcdStorage.Get: err == nil iff the key has a value
StorageFound(key) == key \in DOMAIN st

StorageGet(kind, key) == Decode(kind, st[key])

\* EtcdStorage.Create and EtcdStorage.Update: a plain Put of the encoded object
StoragePut(key, obj) == MapPut(st, key, Encode(obj))

\* a Delete that reports success and removes nothing
StorageDeleteNothing(key) == st

StorageDelete(key) == MapDelete(st, key)

\* strings.HasPrefix on token sequences
HasPrefix(p, prefix) == Len(prefix) <= Len(p) /\ SubSeq(p, 1, Len(prefix)) = prefix

\* EtcdStorage.List: the decoded values of the keys under the prefix
StorageList(kind, prefix) == {Decode(kind, st[k]) : k \in {x \in DOMAIN st : HasPrefix(x, prefix)}}

(***************************************************************************)
(* The registries: PodRegistry, NodeRegistry, ReplicaSetRegistry.          *)
(***************************************************************************)
Threads == 1..2

\* PodRegistry and ReplicaSetRegistry hold a sync.RWMutex, NodeRegistry none
HasMutex(kind) == kind \in {"Pod", "ReplicaSet"}

LockFree(kind) == HasMutex(kind) => mu[kind] = 0

Lock(kind, t) == IF HasMutex(kind) THEN [mu EXCEPT ![kind] = t] ELSE mu

Unlock(kind) == IF HasMutex(kind) THEN [mu EXCEPT ![kind] = 0] ELSE mu

\* CreatePod: if pod.Status == "" { pod.Status = api.PodStatusUnassigned }
Defaulted(o) ==
    IF o.kind = "Pod" /\ o.status = "" THEN [o EXCEPT !.status = "Unassigned"] ELSE o

\* an Update that checks existence in every registry
UpdateChecksAll(kind) == TRUE

\* ReplicaSetRegistry.Update checks that the object exists, the others do not
UpdateChecks(kind) == kind = "ReplicaSet"

\* was: the object stored under the call's key right before its storage step
IdleCall == [pc |-> "idle", op |-> "none", name |-> <<>>, obj |-> NoObj,
             res |-> "none", got |-> NoObj, exp |-> NoObj, was |-> NoObj]

Stored(kind, key) == IF key \in DOMAIN st THEN Decode(kind, st[key]) ELSE NoObj

Running(c) == c.pc \notin {"idle", "done"}

Lookup(m, name) == IF name \in DOMAIN m THEN m[name] ELSE NoObj

\* a caller has written since the controller's current or last Reconcile began
NoRun == [state |-> "written", name |-> <<>>, pods |-> {}, status |-> 0]

\* Reconcile is under way and no caller has written since it began
CleanRun == [NoRun EXCEPT !.state = "clean"]

regFixed == <<lwVars, regKind, rc, podSeq, lastRun, sc, nodeSeen, nodeVars>>

\* what a writing step of a caller leaves alone (it ends the quiet after Reconcile)
writeFixed == <<lwVars, regKind, rc, podSeq, sc, nodeSeen, nodeVars>>

\* a caller enters Create(obj), Update(obj), Get(name) or Delete(name)
Call(t, op, name, obj) ==
    /\ th[t].pc = "idle"
    /\ th' = [th EXCEPT ![t] = [IdleCall EXCEPT !.pc = "call", !.op = op,
                                                !.name = name, !.obj = obj]]
    /\ overlap' = \E u \in Threads \ {t} : Running(th[u])
    /\ UNCHANGED <<st, mu, absMap>>
    /\ UNCHANGED regFixed

\* Create: Lock, storage.Get, "already exists" if it answers
RegistryCreateCheck(t) ==
    /\ th[t].pc = "call" /\ th[t].op = "Create"
    /\ LockFree(regKind)
    /\ IF StorageFound(Key(regKind, th[t].name))
       THEN /\ th' = [th EXCEPT ![t].pc = "done", ![t].res = "exists"]
            /\ UNCHANGED mu
       ELSE /\ th' = [th EXCEPT ![t].pc = "create"]
            /\ mu' = Lock(regKind, t)
    /\ UNCHANGED <<st, overlap, absMap>>
    /\ UNCHANGED regFixed

\* Create: the status default of a pod, storage.Create, Unlock
RegistryCreateStore(t) ==
    /\ th[t].pc = "create"
    /\ st' = StoragePut(Key(regKind, th[t].name), Defaulted(th[t].obj))
    /\ absMap' = MapPut(absMap, th[t].name, Defaulted(th[t].obj))
    /\ th' = [th EXCEPT ![t].pc = "done", ![t].res = "ok", ![t].obj = Defaulted(th[t].obj)]
    /\ mu' = Unlock(regKind)
    /\ UNCHANGED overlap
    /\ lastRun' = NoRun
    /\ UNCHANGED writeFixed

\* Get: RLock, storage.Get, RUnlock
RegistryGet(t) ==
    /\ th[t].pc = "call" /\ th[t].op = "Get"
    /\ LockFree(regKind)
    /\ IF StorageFound(Key(regKind, th[t].name))
       THEN th' = [th EXCEPT ![t].pc = "done", ![t].res = "ok",
                             ![t].got = StorageGet(regKind, Key(regKind, th[t].name)),
                             ![t].exp = Lookup(absMap, th[t].name)]
       ELSE th' = [th EXCEPT ![t].pc = "done", ![t].res = "notfound",
                             ![t].exp = Lookup(absMap, th[t].name)]
    /\ UNCHANGED <<st, mu, overlap, absMap>>
    /\ UNCHANGED regFixed

\* ReplicaSetRegistry.Update: Lock, storage.Get, "not found" unless it answers
RegistryUpdateCheck(t) ==
    /\ th[t].pc = "call" /\ th[t].op = "Update"
    /\ UpdateChecks(regKind)
    /\ LockFree(regKind)
    /\ IF StorageFound(Key(regKind, th[t].name))
       THEN /\ th' = [th EXCEPT ![t].pc = "update",
                                  ![t].was = Stored(regKind, Key(regKind, th[t].name))]
            /\ mu' = Lock(regKind, t)
       ELSE /\ th' = [th EXCEPT ![t].pc = "done", ![t].res = "notfound"]
            /\ UNCHANGED mu
    /\ UNCHANGED <<st, overlap, absMap>>
    /\ UNCHANGED regFixed

\* Update: (Lock,) storage.Update, (Unlock)
RegistryUpdateStore(t) ==
    /\ \/ th[t].pc = "update"
       \/ th[t].pc = "call" /\ th[t].op = "Update" /\ ~UpdateChecks(regKind)
                            /\ LockFree(regKind)
    /\ st' = StoragePut(Key(regKind, th[t].name), th[t].obj)
    /\ absMap' = MapPut(absMap, th[t].name, th[t].obj)
    /\ th' = [th EXCEPT ![t].pc = "done", ![t].res = "ok",
                        ![t].was = IF th[t].pc = "update" THEN th[t].was
                                   ELSE Stored(regKind, Key(regKind, th[t].name))]
    /\ mu' = Unlock(regKind)
    /\ UNCHANGED overlap
    /\ lastRun' = NoRun
    /\ UNCHANGED writeFixed

\* Delete: (Lock,) storage.Delete, (Unlock)
RegistryDelete(t) ==
    /\ th[t].pc = "call" /\ th[t].op = "Delete"
    /\ LockFree(regKind)
    /\ st' = StorageDelete(Key(regKind, th[t].name))
    /\ absMap' = MapDelete(absMap, th[t].name)
    /\ th' = [th EXCEPT ![t].pc = "done", ![t].res = "ok",
                        ![t].was = Stored(regKind, Key(regKind, th[t].name))]
    /\ UNCHANGED <<mu, overlap>>
    /\ lastRun' = NoRun
    /\ UNCHANGED writeFixed

\* the call returns to the caller
Return(t) ==
    /\ th[t].pc = "done"
    /\ th' = [th EXCEPT ![t] = IdleCall]
    /\ overlap' = FALSE
    /\ UNCHANGED <<st, mu, absMap>>
    /\ UNCHANGED regFixed

(***************************************************************************)
(* ReplicaSetController: Run and Reconcile.                                *)
(***************************************************************************)
ControllerId == Cardinality(Threads) + 1

\* the byte order of the tokens names are made of
TokenRank(c) == CASE c = "-" -> 1 [] c = "/" -> 2 [] c = "a" -> 4 [] c = "b" -> 5 [] OTHER -> 3

RECURSIVE NameLess(_, _)
NameLess(x, y) ==
    IF x = <<>> THEN y # <<>>
    ELSE IF y = <<>> THEN FALSE
    ELSE IF Head(x) = Head(y) THEN NameLess(Tail(x), Tail(y))
    ELSE TokenRank(Head(x)) < TokenRank(Head(y))

\* the names of a List response: etcd answers in key order
RECURSIVE SortNames(_)
SortNames(S) ==
    IF S = {} THEN <<>>
    ELSE LET m == CHOOSE x \in S : \A y \in S \ {x} : NameLess(x, y)
         IN  <<m>> \o SortNames(S \ {m})

\* names.SimpleNameGenerator.GenerateName: the base and a fresh suffix
GenerateName(base, n) == base \o <<"-", ToString(n)>>

isActive(pod) == pod.status # "Succeeded" /\ pod.status # "Failed"

\* ownership by equal names instead of by prefix
isOwnedByEqualName(pod, rs) == pod.name = rs.name

isOwnedBy(pod, rs) == HasPrefix(pod.name, rs.name)

isPodActiveAndOwnedBy(pod, rs) == isOwnedBy(pod, rs) /\ isActive(pod)

\* Reconcile: currentPodCount, the number of active pods the replica set owns
currentPodCount(rs, allPods) ==
    Cardinality({p \in allPods : isPodActiveAndOwnedBy(p, rs)})

\* a Reconcile that creates one pod per missing slot, whatever the template holds
PodsToCreatePerSlot(rs, allPods) ==
    IF currentPodCount(rs, allPods) < rs.replicas
    THEN rs.replicas - currentPodCount(rs, allPods)
    ELSE 0

\* Reconcile: the pods it has to create for the replica set it has read
PodsToCreate(rs, allPods) ==
    IF currentPodCount(rs, allPods) < rs.replicas
    THEN (rs.replicas - currentPodCount(rs, allPods)) * rs.containers
    ELSE 0

\* count: currentPodCount as computed from the list; made: the pod literals this
\* Reconcile has passed to CreatePod (their name, the slot i of the outer loop,
\* their Spec.Containers as indexes into the template's containers)
IdleController == [pc |-> "idle", queue |-> <<>>, currentRS |-> NoObj, toCreate |-> 0,
                   count |-> 0, made |-> <<>>]

\* the position of the nested loops (slots, then template containers) after k pods
LoopSlot(first, containers, k) == first + (k \div containers)

LoopContainer(containers, k) == (k % containers) + 1

rcFixed == <<lwVars, regKind, th, overlap, sc, nodeSeen, nodeVars>>

\* Run: replicaSetRegistry.List
Run ==
    /\ rc.pc = "idle"
    /\ LockFree("ReplicaSet")
    /\ LET queue == SortNames({rs.name : rs \in StorageList("ReplicaSet", rsPrefix)})
       IN  rc' = IF queue = <<>> THEN rc ELSE [rc EXCEPT !.pc = "get", !.queue = queue]
    /\ UNCHANGED <<st, mu, absMap, podSeq, lastRun>>
    /\ UNCHANGED rcFixed

\* Reconcile: replicaSetRegistry.Get; Run ends the process when Reconcile fails
ReconcileGet ==
    /\ rc.pc = "get"
    /\ LockFree("ReplicaSet")
    /\ LET key == Key("ReplicaSet", Head(rc.queue))
       IN  rc' = IF StorageFound(key)
                 THEN [rc EXCEPT !.pc = "list", !.currentRS = StorageGet("ReplicaSet", key)]
                 ELSE [IdleController EXCEPT !.pc = "fatal"]
    /\ lastRun' = IF lastRun = NoRun THEN CleanRun ELSE lastRun
    /\ UNCHANGED <<st, mu, absMap, podSeq>>
    /\ UNCHANGED rcFixed

\* Reconcile: podRegistry.ListPods and the count of active owned pods
ReconcileListPods ==
    /\ rc.pc = "list"
    /\ LockFree("Pod")
    /\ LET allPods == StorageList("Pod", podPrefix)
           n == PodsToCreate(rc.currentRS, allPods)
       IN  rc' = [rc EXCEPT !.pc = IF n > 0 THEN "create" ELSE "update", !.toCreate = n,
                            !.count = currentPodCount(rc.currentRS, allPods)]
    /\ UNCHANGED <<st, mu, absMap, podSeq, lastRun>>
    /\ UNCHANGED rcFixed

\* Reconcile: podRegistry.CreatePod of one generated pod
ReconcileCreatePod ==
    /\ rc.pc = "create"
    /\ LockFree("Pod")
    /\ podSeq < MaxPods
    /\ LET pod == PodObj(GenerateName(rc.currentRS.name, podSeq + 1), <<>>, "")
           key == Key("Pod", pod.name)
       IN  IF StorageFound(key)
           THEN rc' = [IdleController EXCEPT !.pc = "fatal"] /\ UNCHANGED st
           ELSE /\ st' = StoragePut(key, Defaulted(pod))
                /\ rc' = [rc EXCEPT !.toCreate = rc.toCreate - 1,
                                    !.pc = IF rc.toCreate = 1 THEN "update" ELSE "create",
                                    !.made = Append(rc.made,
                                        [name |-> pod.name,
                                         slot |-> LoopSlot(rc.count, rc.currentRS.containers,
                                                           Len(rc.made)),
                                         containers |-> <<LoopContainer(rc.currentRS.containers,
                                                                        Len(rc.made))>>])]
    /\ podSeq' = podSeq + 1
    /\ UNCHANGED <<mu, absMap, lastRun>>
    /\ UNCHANGED rcFixed

\* Reconcile: currentRS.Status.Replicas = the desired count; Update: Lock, storage.Get
ReconcileUpdateCheck ==
    /\ rc.pc = "update"
    /\ LockFree("ReplicaSet")
    /\ IF StorageFound(Key("ReplicaSet", rc.currentRS.name))
       THEN /\ rc' = [rc EXCEPT !.pc = "store",
                                !.currentRS.statusReplicas = rc.currentRS.replicas]
            /\ mu' = Lock("ReplicaSet", ControllerId)
       ELSE /\ rc' = [IdleController EXCEPT !.pc = "fatal"]
            /\ UNCHANGED mu
    /\ UNCHANGED <<st, absMap, podSeq, lastRun>>
    /\ UNCHANGED rcFixed

\* Update: storage.Update of the object Reconcile read, Unlock; Run goes on
ReconcileUpdateStore ==
    /\ rc.pc = "store"
    /\ st' = StoragePut(Key("ReplicaSet", rc.currentRS.name), rc.currentRS)
    /\ absMap' = MapPut(absMap, rc.currentRS.name, rc.currentRS)
    /\ mu' = Unlock("ReplicaSet")
    /\ rc' = IF Tail(rc.queue) = <<>> THEN IdleController
             ELSE [IdleController EXCEPT !.pc = "get", !.queue = Tail(rc.queue)]
    /\ lastRun' = IF lastRun = NoRun THEN NoRun
                   ELSE [state |-> "done", name |-> rc.currentRS.name,
                         pods |-> StorageList("Pod", podPrefix),
                         status |-> rc.currentRS.statusReplicas]
    /\ UNCHANGED podSeq
    /\ UNCHANGED rcFixed

\* an UpdatePod that writes like Create: only when the key has no value
UpdatePodIfAbsent(pod) ==
    IF Key("Pod", pod.name) \in DOMAIN st THEN st ELSE StoragePut(Key("Pod", pod.name), pod)

\* PodRegistry.UpdatePod: storage.Update under the pod's key
UpdatePod(pod) == StoragePut(Key("Pod", pod.name), pod)

\* the statuses a client writes to a pod it has read
PodStatuses == {"Running", "Succeeded", "Failed"}

\* a client of the pod registry: UpdatePod of a stored pod with another status
ClientUpdatePod(pod, status) ==
    /\ LockFree("Pod")
    /\ Key("Pod", pod.name) \in DOMAIN st
    /\ pod.status # status
    /\ st' = UpdatePod([pod EXCEPT !.status = status])
    /\ lastRun' = NoRun
    /\ UNCHANGED <<mu, th, overlap, absMap>>
    /\ UNCHANGED writeFixed

(***************************************************************************)
(* The scheduler: schedulePendingPods, one pass per tick.  The source's     *)
(* PodStatusUnassigned and PodStatusAssigned are the statuses the           *)
(* specification calls Pending and Scheduled.                              *)
(***************************************************************************)
\* PodRegistry.ListUnassignedPods: the listed pods with status Unassigned
ListUnassignedPods == {p \in StorageList("Pod", podPrefix) : p.status = "Unassigned"}

\* a ListNodes that lists under the root prefix
ListNodesAnyKey == StorageList("Node", <<"/">>)

\* NodeRegistry.ListNodes
ListNodes == StorageList("Node", nodePrefix)

\* the objects of a list response, in key order
InKeyOrder(objs) ==
    LET names == SortNames({o.name : o \in objs})
    IN  [i \in 1..Len(names) |-> CHOOSE o \in objs : o.name = names[i]]

\* pods: the pending pods the pass has still to bind; nodes: the nodes it listed;
\* err: the error the last pass returned
IdleScheduler == [pc |-> "idle", pods |-> <<>>, nodes |-> {}, err |-> "none"]

schedFixed == <<lwVars, regKind, mu, th, overlap, absMap, rc, podSeq, nodeSeen, nodeVars>>

\* a tick: schedulePendingPods lists the pending pods (the scheduler has a
\* PodRegistry instance, and so a lock, of its own)
SchedListPendingPods ==
    /\ sc.pc = "idle"
    /\ sc' = [IdleScheduler EXCEPT !.pc = "nodes", !.pods = InKeyOrder(ListUnassignedPods)]
    /\ UNCHANGED <<st, lastRun>>
    /\ UNCHANGED schedFixed

\* it lists the nodes; without nodes the pass fails with no-nodes-available
SchedListNodes ==
    /\ sc.pc = "nodes"
    /\ sc' = IF ListNodes = {} THEN [IdleScheduler EXCEPT !.err = "nonodes"]
             ELSE IF sc.pods = <<>> THEN IdleScheduler
             ELSE [sc EXCEPT !.pc = "bind", !.nodes = ListNodes]
    /\ UNCHANGED <<st, lastRun>>
    /\ UNCHANGED schedFixed

\* for the next pending pod: some listed node, nodeName and status, UpdatePod
SchedBind ==
    /\ sc.pc = "bind"
    /\ \E node \in sc.nodes :
          st' = UpdatePod([Head(sc.pods) EXCEPT !.nodeName = node.name,
                                                !.status = "Assigned"])
    /\ sc' = IF Tail(sc.pods) = <<>> THEN IdleScheduler
             ELSE [sc EXCEPT !.pods = Tail(sc.pods)]
    /\ lastRun' = NoRun
    /\ UNCHANGED schedFixed

envNodeFixed == <<lwVars, regKind, mu, th, overlap, absMap, rc, podSeq, lastRun, sc,
                  nodeVars>>

\* a kubelet registers its node: NodeRegistry.CreateNode
RegisterNode(name) ==
    /\ ~StorageFound(Key("Node", name))
    /\ st' = StoragePut(Key("Node", name), NodeObj(name, "Ready"))
    /\ nodeSeen' = TRUE
    /\ UNCHANGED envNodeFixed

\* a client removes a node: NodeRegistry.DeleteNode
UnregisterNode(name) ==
    /\ StorageFound(Key("Node", name))
    /\ st' = StorageDelete(Key("Node", name))
    /\ UNCHANGED nodeSeen
    /\ UNCHANGED envNodeFixed

(***************************************************************************)
(* The API server's handlers of POST /pods, GET /pods and POST /nodes.     *)
(***************************************************************************)
\* the entity of an error response
ErrorEntity == [kind |-> "error"]

\* req: the handler that ran last; existed: it was CreatePod for a name that had
\* a pod; writes: what it wrote to its response, in order
IdleServer == [up |-> TRUE, req |-> "none", existed |-> FALSE, writes |-> <<>>]

\* api.WriteError, api.WriteResponse: one write of a status and an entity
Written(status, entity) == [status |-> status, entity |-> entity]

\* PodHandler.CreatePod when podRegistry.CreatePod answers "already exists";
\* sentinel: the build's registry returns registry.ErrPodAlreadyExists (the case
\* of the switch has no return), otherwise the default case answers
CreatePodConflictWrites(sentinel, pod) ==
    IF sentinel
    THEN <<Written(409, ErrorEntity), Written(201, pod)>>
    ELSE <<Written(500, ErrorEntity)>>

srvFixed == <<lwVars, regKind, mu, th, overlap, absMap, rc, podSeq, sc, nodeSeen,
              kubelet, sw, bo>>

\* POST /pods: PodHandler.CreatePod over PodRegistry.CreatePod
PodHandlerCreatePod(pod, sentinel) ==
    /\ apiSrv.up
    /\ LockFree("Pod")
    /\ IF StorageFound(Key("Pod", pod.name))
       THEN /\ apiSrv' = [apiSrv EXCEPT !.req = "CreatePod", !.existed = TRUE,
                                        !.writes = CreatePodConflictWrites(sentinel, pod)]
            /\ UNCHANGED st
       ELSE /\ apiSrv' = [apiSrv EXCEPT !.req = "CreatePod", !.existed = FALSE,
                                        !.writes = <<Written(201, Defaulted(pod))>>]
            /\ st' = StoragePut(Key("Pod", pod.name), Defaulted(pod))
    /\ lastRun' = NoRun
    /\ UNCHANGED srvFixed

\* GET /pods?nodeName=...: PodHandler.ListPods answers with PodRegistry.ListPods
PodHandlerListPods(nodeName) == StorageList("Pod", podPrefix)

\* the API server stops answering / answers again
ApiServerDown ==
    /\ apiSrv.up
    /\ apiSrv' = [apiSrv EXCEPT !.up = FALSE]
    /\ UNCHANGED <<st, lastRun>>
    /\ UNCHANGED srvFixed

ApiServerUp ==
    /\ ~apiSrv.up
    /\ apiSrv' = [apiSrv EXCEPT !.up = TRUE]
    /\ UNCHANGED <<st, lastRun>>
    /\ UNCHANGED srvFixed

(***************************************************************************)
(* The API server's reads and creations over a store whose Get can fail.   *)
(***************************************************************************)
\* what can go wrong in one EtcdStorage.Get: nothing, the client's Get fails,
\* the stored value does not decode
StorageFaults == {"none", "client", "decoding"}

\* EtcdStorage.Get: the error it returns
StorageGetErr(key, fault) ==
    IF fault = "client" THEN "ErrEtcdClient"
    ELSE IF key \notin DOMAIN st THEN "ErrNotFound"
    ELSE IF fault = "decoding" THEN "ErrDecoding"
    ELSE "nil"

\* NodeRegistry.GetNode wraps every error as ErrNodeNotFound; PodRegistry.GetPod
\* returns the storage's error
RegistryGetErr(kind, err) ==
    IF kind = "Node" /\ err # "nil" THEN "ErrNodeNotFound" ELSE err

\* APIServer.getNode, APIServer.getPod: the status of the response
GetStatus(err) == IF err = "nil" THEN 200 ELSE 404

\* GET /nodes/{name}, GET /pods/{name}
ApiGet(kind, name, fault) ==
    /\ apiSrv.up
    /\ LockFree(kind)
    /\ LET key == Key(kind, name)
           err == RegistryGetErr(kind, StorageGetErr(key, fault))
       IN  apiSrv' = [apiSrv EXCEPT
                        !.req = "Get", !.existed = StorageFound(key),
                        !.writes = <<Written(GetStatus(err),
                                             IF err = "nil" THEN StorageGet(kind, key)
                                             ELSE ErrorEntity)>>]
    /\ UNCHANGED <<st, lastRun>>
    /\ UNCHANGED srvFixed

\* POST /nodes, POST /pods: APIServer.createNode / createPod over CreateNode /
\* CreatePod: the existence check, then storage.Create, whose Put fails or stores
ApiCreate(obj, fault, putOk) ==
    /\ apiSrv.up
    /\ LockFree(obj.kind)
    /\ LET key == Key(obj.kind, obj.name)
           stores == StorageGetErr(key, fault) # "nil" /\ putOk
       IN  /\ apiSrv' = [apiSrv EXCEPT
                            !.req = "Create", !.existed = StorageFound(key),
                            !.writes = IF stores THEN <<Written(201, Defaulted(obj))>>
                                       ELSE <<Written(500, ErrorEntity)>>]
           /\ st' = IF stores THEN StoragePut(key, Defaulted(obj)) ELSE st
           /\ nodeSeen' = (nodeSeen \/ (stores /\ obj.kind = "Node"))
    /\ lastRun' = NoRun
    /\ UNCHANGED <<lwVars, regKind, mu, th, overlap, absMap, rc, podSeq, sc, kubelet, sw, bo>>

(***************************************************************************)
(* The kubelet: Start (registerNode), watchPods, runNewPods, runPod.       *)
(***************************************************************************)
KubeletNode == <<"a">>     \* k.nodeName

\* posts: the POSTs of registerNode so far; pods: k.pods; starting: the pods whose
\* runPod goroutine has not run yet; launched: the pods runPod was run for;
\* failed: the names of the pods whose pull or start failed; attempts: name -> the
\* number of times runPod was run for the name
NewKubelet == [pc |-> "new", posts |-> 0, pods |-> EmptyMap, starting |-> {},
               launched |-> {}, failed |-> {}, attempts |-> EmptyMap]

klFixed == <<lwVars, regKind, mu, th, overlap, absMap, rc, podSeq, lastRun, sc, sw, bo>>

\* Start: registerNode posts the node once; APIServer.createNode answers 201 or,
\* when NodeRegistry.CreateNode fails, 500; on success Start goes on to watchPods
KubeletStart ==
    /\ kubelet.pc = "new"
    /\ IF ~apiSrv.up
       THEN /\ kubelet' = [kubelet EXCEPT !.pc = "failed", !.posts = kubelet.posts + 1]
            /\ UNCHANGED <<st, apiSrv, nodeSeen>>
       ELSE IF StorageFound(Key("Node", KubeletNode))
       THEN /\ kubelet' = [kubelet EXCEPT !.pc = "failed", !.posts = kubelet.posts + 1]
            /\ apiSrv' = [apiSrv EXCEPT !.req = "createNode", !.existed = FALSE,
                                        !.writes = <<Written(500, ErrorEntity)>>]
            /\ UNCHANGED <<st, nodeSeen>>
       ELSE /\ kubelet' = [kubelet EXCEPT !.pc = "watch", !.posts = kubelet.posts + 1]
            /\ apiSrv' = [apiSrv EXCEPT !.req = "createNode", !.existed = FALSE,
                              !.writes = <<Written(201, NodeObj(KubeletNode, "Ready"))>>]
            /\ st' = StoragePut(Key("Node", KubeletNode), NodeObj(KubeletNode, "Ready"))
            /\ nodeSeen' = TRUE
    /\ UNCHANGED klFixed

\* runNewPods: the listed pods that are not in k.pods
NewPods(listed) == {p \in listed : p.name \notin DOMAIN kubelet.pods}

\* watchPods: one poll that gets an answer: getPodAssignments, then runNewPods
\* records every new pod and starts a runPod goroutine for it
KubeletPoll ==
    /\ kubelet.pc = "watch"
    /\ apiSrv.up
    /\ LET new == NewPods(PodHandlerListPods(KubeletNode))
       IN  kubelet' = [kubelet EXCEPT
               !.pods = [n \in DOMAIN kubelet.pods \cup {p.name : p \in new} |->
                            IF n \in DOMAIN kubelet.pods THEN kubelet.pods[n]
                            ELSE CHOOSE p \in new : p.name = n],
               !.starting = kubelet.starting \cup new]
    /\ UNCHANGED <<st, apiSrv, nodeSeen>>
    /\ UNCHANGED klFixed

\* what StartContainer does for the containers of a pod: they start, a pull or a
\* start fails (runPod logs it), or ImagePull fails (StartContainer panics)
LaunchOutcomes == {"started", "failed", "panic"}

\* a runPod goroutine runs
KubeletRunPod(pod, outcome) ==
    /\ kubelet.pc = "watch"
    /\ pod \in kubelet.starting
    /\ kubelet' = [kubelet EXCEPT
           !.pc = IF outcome = "panic" THEN "panicked" ELSE "watch",
           !.starting = kubelet.starting \ {pod},
           !.launched = kubelet.launched \cup {pod},
           !.failed = IF outcome = "started" THEN kubelet.failed
                      ELSE kubelet.failed \cup {pod.name},
           !.attempts = MapPut(kubelet.attempts, pod.name,
                               IF pod.name \in DOMAIN kubelet.attempts
                               THEN kubelet.attempts[pod.name] + 1 ELSE 1)]
    /\ UNCHANGED <<st, apiSrv, nodeSeen>>
    /\ UNCHANGED klFixed

(***************************************************************************)
(* EtcdStorage.Watch: the events of the store as WatchEvents.              *)
(***************************************************************************)
\* start: the store's revision when Watch was called; next: the revision of the
\* next event of the watcher; sending: the event handleWatchEvents is sending;
\* out: the WatchEvents the reader of the channel has received
NoWatch == [state |-> "none", start |-> 0, next |-> 0, sending |-> <<>>, out |-> <<>>]

\* a conversion that reports every put as an update
convertEventTypeNoAdd(event) == IF event.type = "PUT" THEN "Update" ELSE "Delete"

\* convertEventType: a put without PrevKv is an Add
convertEventType(event) ==
    IF event.type = "PUT"
    THEN IF ~event.hadPrev THEN "Add" ELSE "Update"
    ELSE "Delete"

\* convertToWatchEvent (0: no value)
convertToWatchEvent(event) ==
    [type |-> convertEventType(event), key |-> event.key, value |-> event.value,
     oldValue |-> IF event.hadPrev THEN event.prev ELSE 0]

swFixed == <<st, regKind, mu, th, overlap, absMap, rc, podSeq, lastRun, sc, nodeSeen,
             apiSrv, kubelet, bo>>

\* Watch: client.Watch(ctx, prefix, WithPrefix(), WithPrevKV()), go handleWatchEvents
StorageWatch ==
    /\ sw.state = "none"
    /\ storeUp
    /\ sw' = [NoWatch EXCEPT !.state = "open", !.start = rev, !.next = rev + 1]
    /\ UNCHANGED lwVars /\ UNCHANGED swFixed

\* processWatchResponse: the next event of the watcher is converted and offered
HandleWatchEvents ==
    /\ sw.state = "open" /\ sw.sending = <<>>
    /\ sw.next <= rev
    /\ sw' = [sw EXCEPT !.sending = <<convertToWatchEvent(log[sw.next - 1])>>,
                        !.next = sw.next + 1]
    /\ UNCHANGED lwVars /\ UNCHANGED swFixed

\* the reader of the channel takes the event
StorageWatchReceive ==
    /\ sw.state = "open" /\ sw.sending # <<>>
    /\ sw' = [sw EXCEPT !.sending = <<>>, !.out = sw.out \o sw.sending]
    /\ UNCHANGED lwVars /\ UNCHANGED swFixed

\* case <-ctx.Done(): handleWatchEvents returns and closes the channel
StorageWatchCancel ==
    /\ sw.state = "open"
    /\ sw' = [sw EXCEPT !.state = "closed", !.sending = <<>>]
    /\ UNCHANGED lwVars /\ UNCHANGED swFixed

(***************************************************************************)
(* retry.WithExponentialBackoff, for the options a caller may pass.        *)
(***************************************************************************)
MaxWaits == 3     \* failed attempts of one call

RetryOptions ==
    [InitialDelay : 1..(MaxDelay + 1), MaxDelay : 1..MaxDelay, Multiplier : 1..Multiplier]

\* waits: the delays of time.After so far, in order
NoBackoff == [state |-> "none", opts |-> [InitialDelay |-> 0, MaxDelay |-> 0,
                                          Multiplier |-> 0],
              currentDelay |-> 0, waits |-> <<>>]

\* nextDelay := currentDelay * Multiplier; if nextDelay > MaxDelay { nextDelay = MaxDelay }
nextDelay(opts, d) ==
    IF d * opts.Multiplier > opts.MaxDelay THEN opts.MaxDelay ELSE d * opts.Multiplier

boFixed == <<st, regKind, mu, th, overlap, absMap, rc, podSeq, lastRun, sc, nodeSeen,
             apiSrv, kubelet, sw>>

\* the call: currentDelay := opts.InitialDelay
WithExponentialBackoff(opts) ==
    /\ bo.state = "none"
    /\ bo' = [state |-> "run", opts |-> opts, currentDelay |-> opts.InitialDelay,
              waits |-> <<>>]
    /\ UNCHANGED lwVars /\ UNCHANGED boFixed

\* the operation fails: <-time.After(currentDelay), then the next delay
OperationFails ==
    /\ bo.state = "run"
    /\ Len(bo.waits) < MaxWaits
    /\ bo' = [bo EXCEPT !.waits = Append(bo.waits, bo.currentDelay),
                        !.currentDelay = nextDelay(bo.opts, bo.currentDelay)]
    /\ UNCHANGED lwVars /\ UNCHANGED boFixed

\* the operation succeeds, or ctx is done during the wait: the call returns
BackoffReturns ==
    /\ bo.state = "run"
    /\ bo' = [bo EXCEPT !.state = "returned"]
    /\ UNCHANGED lwVars /\ UNCHANGED boFixed

RegInit(kind) ==
    /\ st = EmptyMap
    /\ regKind = kind
    /\ mu = [k \in {"Pod", "ReplicaSet"} |-> 0]
    /\ th = [t \in Threads |-> IdleCall]
    /\ overlap = FALSE
    /\ absMap = EmptyMap
    /\ rc = IdleController
    /\ podSeq = 0
    /\ lastRun = NoRun
    /\ sc = IdleScheduler
    /\ nodeSeen = FALSE
    /\ apiSrv = IdleServer
    /\ kubelet = NewKubelet
    /\ sw = NoWatch
    /\ bo = NoBackoff

(***************************************************************************)
(* The ListWatch specification: NewListWatch, then ListAndWatch.           *)
(***************************************************************************)
LWInit ==
    /\ kv = [k \in Keys |-> NoKV]
    /\ rev = 1
    /\ log = <<>>
    /\ storeUp = TRUE
    /\ outages = 0
    /\ etcdCli = "open"
    /\ ctxDone = FALSE
    /\ pc = "top"
    /\ ch = <<>>
    /\ chClosed = FALSE
    /\ doneClosed = FALSE
    /\ existing = <<>>
    /\ errI = 0
    /\ errNext = "backoff"
    /\ hwcI = 0
    /\ currentDelay = InitialDelay
    /\ wchan = "none"
    /\ wNext = 0
    /\ wbuf = <<>>
    /\ wbufClosed = FALSE
    /\ conv = "none"
    /\ notif = [s \in 1..MaxSessions |-> "none"]
    /\ sessions = 0
    /\ listRev = 0
    /\ watchRev = 0
    /\ panicked = FALSE
    /\ cancelPc = "idle"
    /\ lastEv = [k \in Keys |-> NoEv]
    /\ errRecv = 0
    /\ errFull = FALSE
    /\ lostAt = 0

Init == LWInit /\ RegInit("Pod")

Next ==
    \/ LoopStep
    \/ ConvDeliver \/ ConvErr \/ ConvClose
    \/ \E s \in 1..MaxSessions : NotifCheck(s) \/ NotifTry(s)
    \/ Receive
    \/ CancelCall \/ CancelReturn
    \/ \E k \in Keys : Put(k)
    \/ \E k \in Keys : Delete(k)
    \/ \E effect \in {"open", "closed", "err"} : Outage(effect) \/ StreamFail(effect)
    \/ Recover

Spec == Init /\ [][Next]_vars

(***************************************************************************)
(* The same program in narrower environments.                              *)
(***************************************************************************)
\* no failure and no cancellation: one watch session
NextWatch ==
    \/ LoopTop \/ Connect \/ ListGet \/ ListSend \/ WatchGet \/ Forward
    \/ ConvDeliver
    \/ Receive
    \/ \E k \in Keys : Put(k)
    \/ \E k \in Keys : Delete(k)

SpecWatch == Init /\ [][NextWatch]_vars

\* failures of the store and of the store watch, no cancellation
NextReconnect ==
    \/ LoopTop \/ Connect \/ ListGet \/ ListSend \/ WatchGet \/ Forward \/ WatchClosed
    \/ HandleWatchChannelClose \/ TryToSendErrorEvent \/ Backoff
    \/ ConvDeliver \/ ConvErr \/ ConvClose
    \/ \E s \in 1..MaxSessions : NotifCheck(s) \/ NotifTry(s)
    \/ Receive
    \/ \E k \in Keys : Put(k)
    \/ \E k \in Keys : Delete(k)
    \/ \E effect \in {"open", "closed", "err"} : Outage(effect) \/ StreamFail(effect)
    \/ Recover

SpecReconnect == Init /\ [][NextReconnect]_vars

\* the goroutines keep running, the consumer keeps reading and a store that is
\* down comes back
SpecReconnectFair ==
    /\ SpecReconnect
    /\ WF_vars(LoopStep)
    /\ WF_vars(ConvDeliver \/ ConvErr \/ ConvClose)
    /\ WF_vars(\E s \in 1..MaxSessions : NotifCheck(s) \/ NotifTry(s))
    /\ WF_vars(Receive)
    /\ WF_vars(Recover)

\* cancellation by the caller, with store outages and no failure of the stream alone
NextCancel ==
    \/ LoopStep
    \/ ConvDeliver \/ ConvErr \/ ConvClose
    \/ \E s \in 1..MaxSessions : NotifCheck(s) \/ NotifTry(s)
    \/ Receive
    \/ CancelCall \/ CancelReturn
    \/ \E k \in Keys : Put(k)
    \/ \E effect \in {"open", "closed", "err"} : Outage(effect)
    \/ Recover

SpecCancel == Init /\ [][NextCancel]_vars

\* one session, a writer that overruns its buffer while the consumer does not
\* read, cancellation (the prefix is empty when the loop lists it: no ListSend)
NextBuffer ==
    \/ LoopTop \/ Connect \/ ListGet \/ WatchGet \/ WatchCtxDone
    \/ Forward \/ WatchClosed \/ HandleWatchChannelClose \/ TryToSendErrorEvent
    \/ Backoff \/ Cleanup \/ CleanupCloseCh \/ CleanupCloseDone
    \/ ConvDeliver \/ ConvBlock \/ ConvUnblock \/ ConvClose
    \/ \E s \in 1..MaxSessions : NotifCheck(s)
    \/ CancelCall \/ CancelReturn
    \/ \E k \in Keys : BurstPut(k)

SpecBuffer == Init /\ [][NextBuffer]_vars

(***************************************************************************)
(* Callers of one registry instance.                                       *)
(***************************************************************************)
RegistryInit == LWInit /\ \E kind \in Kinds : RegInit(kind)

\* the objects the callers pass: a registry does not look into a replica set, so
\* two different ones stand for all
RegistryInputs(kind, name) ==
    IF kind = "ReplicaSet"
    THEN {ReplicaSetObj(name, 0, 1, 0), ReplicaSetObj(name, 1, 1, 0)}
    ELSE Inputs(kind, name)

NextRegistry ==
    \/ \E t \in Threads, name \in Names :
          \/ \E obj \in RegistryInputs(regKind, name) : Call(t, "Create", name, obj)
          \/ \E obj \in RegistryInputs(regKind, name) : Call(t, "Update", name, obj)
          \/ Call(t, "Get", name, NoObj)
          \/ Call(t, "Delete", name, NoObj)
    \/ \E t \in Threads :
          \/ RegistryCreateCheck(t) \/ RegistryCreateStore(t)
          \/ RegistryGet(t)
          \/ RegistryUpdateCheck(t) \/ RegistryUpdateStore(t)
          \/ RegistryDelete(t)
          \/ Return(t)

SpecRegistry == RegistryInit /\ [][NextRegistry]_vars

(***************************************************************************)
(* The controller and a client of the replica set registry.                *)
(***************************************************************************)
ControllerInit == LWInit /\ RegInit("ReplicaSet")

ClientNames == {<<"a">>, <<"b">>}

NextController ==
    \/ Run \/ ReconcileGet \/ ReconcileListPods \/ ReconcileCreatePod
    \/ ReconcileUpdateCheck \/ ReconcileUpdateStore
    \/ \E name \in ClientNames :
          \/ \E obj \in Inputs(regKind, name) : Call(1, "Create", name, obj)
          \/ \E obj \in Inputs(regKind, name) : Call(1, "Update", name, obj)
          \/ Call(1, "Delete", name, NoObj)
    \/ RegistryCreateCheck(1) \/ RegistryCreateStore(1)
    \/ RegistryUpdateCheck(1) \/ RegistryUpdateStore(1)
    \/ RegistryDelete(1)
    \/ Return(1)
    \/ \E pod \in StorageList("Pod", podPrefix), status \in PodStatuses :
          ClientUpdatePod(pod, status)

SpecController == ControllerInit /\ [][NextController]_vars

\* the controller and a client that writes replica sets with one more replica and
\* one more template container than the other clients do
TemplateInputs(name) ==
    {ReplicaSetObj(name, r, c, 0) : r \in 0..(MaxReplicas + 1), c \in 1..(MaxContainers + 1)}

NextReconcile ==
    \/ Run \/ ReconcileGet \/ ReconcileListPods \/ ReconcileCreatePod
    \/ ReconcileUpdateCheck \/ ReconcileUpdateStore
    \/ \E obj \in TemplateInputs(<<"a">>) :
          Call(1, "Create", <<"a">>, obj) \/ Call(1, "Update", <<"a">>, obj)
    \/ RegistryCreateCheck(1) \/ RegistryCreateStore(1)
    \/ RegistryUpdateCheck(1) \/ RegistryUpdateStore(1)
    \/ Return(1)
    \/ \E pod \in StorageList("Pod", podPrefix), status \in PodStatuses :
          ClientUpdatePod(pod, status)

SpecReconcile == ControllerInit /\ [][NextReconcile]_vars

\* the controller and a client that creates two replica sets, the name of the
\* first a proper prefix of the name of the second
PrefixNames == {<<"a">>, <<"a", "b">>}

NextOwnership ==
    \/ Run \/ ReconcileGet \/ ReconcileListPods \/ ReconcileCreatePod
    \/ ReconcileUpdateCheck \/ ReconcileUpdateStore
    \/ \E name \in PrefixNames :
          \E obj \in Inputs(regKind, name) : Call(1, "Create", name, obj)
    \/ RegistryCreateCheck(1) \/ RegistryCreateStore(1)
    \/ Return(1)

SpecOwnership == ControllerInit /\ [][NextOwnership]_vars

(***************************************************************************)
(* The scheduler, a client of the pod registry and the nodes' kubelets.    *)
(***************************************************************************)
SchedulerInit == LWInit /\ RegInit("Pod")

NodeNames == {<<"a">>, <<"b">>}

\* the pods a client posts: without node, bound, and with a node but no status
PodInputs(name) == Inputs("Pod", name) \cup {PodObj(name, <<"a">>, "")}

NextScheduler ==
    \/ SchedListPendingPods \/ SchedListNodes \/ SchedBind
    \/ \E name \in ClientNames :
          \/ \E obj \in PodInputs(name) : Call(1, "Create", name, obj)
          \/ \E obj \in PodInputs(name) : Call(1, "Update", name, obj)
          \/ Call(1, "Delete", name, NoObj)
    \/ RegistryCreateCheck(1) \/ RegistryCreateStore(1)
    \/ RegistryUpdateStore(1)
    \/ RegistryDelete(1)
    \/ Return(1)
    \/ \E name \in NodeNames : RegisterNode(name) \/ UnregisterNode(name)

SpecScheduler == SchedulerInit /\ [][NextScheduler]_vars

(***************************************************************************)
(* The kubelet of node a, the API server and clients that post pods.       *)
(***************************************************************************)
KubeletInit == LWInit /\ RegInit("Pod")

\* the pods the clients post: not bound, bound to this node, bound to another
PostedPods == {PodObj(name, node, "") : name \in ClientNames, node \in {<<>>} \cup NodeNames}

NextKubelet ==
    \/ \E pod \in PostedPods, sentinel \in BOOLEAN : PodHandlerCreatePod(pod, sentinel)
    \/ KubeletStart
    \/ KubeletPoll
    \/ \E pod \in kubelet.starting, outcome \in LaunchOutcomes : KubeletRunPod(pod, outcome)
    \/ ApiServerDown \/ ApiServerUp
    \/ \E name \in NodeNames : RegisterNode(name) \/ UnregisterNode(name)

SpecKubelet == KubeletInit /\ [][NextKubelet]_vars

\* the kubelet's loop and its goroutines keep running
SpecKubeletFair ==
    /\ SpecKubelet
    /\ WF_vars(KubeletPoll)
    /\ WF_vars(\E pod \in kubelet.starting, outcome \in LaunchOutcomes :
                  KubeletRunPod(pod, outcome))

(***************************************************************************)
(* Clients of the API server that read and create pods and nodes.          *)
(***************************************************************************)
PostedObjects == PostedPods \cup {NodeObj(name, "Ready") : name \in NodeNames}

NextApiFaults ==
    \/ \E obj \in PostedObjects, fault \in StorageFaults, putOk \in BOOLEAN :
          ApiCreate(obj, fault, putOk)
    \/ \E kind \in {"Pod", "Node"}, name \in ClientNames, fault \in StorageFaults :
          ApiGet(kind, name, fault)
    \/ \E name \in NodeNames : UnregisterNode(name)

SpecApiFaults == KubeletInit /\ [][NextApiFaults]_vars

(***************************************************************************)
(* One EtcdStorage.Watch and writers of the prefix.                        *)
(***************************************************************************)
NextStorageWatch ==
    \/ StorageWatch \/ HandleWatchEvents \/ StorageWatchReceive \/ StorageWatchCancel
    \/ \E k \in Keys : Put(k)
    \/ \E k \in Keys : Delete(k)

SpecStorageWatch == Init /\ [][NextStorageWatch]_vars

(***************************************************************************)
(* One call of WithExponentialBackoff.                                     *)
(***************************************************************************)
NextBackoff ==
    \/ \E opts \in RetryOptions : WithExponentialBackoff(opts)
    \/ OperationFails
    \/ BackoffReturns

SpecBackoff == Init /\ [][NextBackoff]_vars

(***************************************************************************)
(* Properties of ListWatch.                                                *)
(***************************************************************************)
\* the stream is idle: the session watches, the store watch has delivered every
\* commit it will deliver and the consumer has read everything
Idle ==
    /\ pc = "watching" /\ wchan = "open" /\ storeUp /\ ~ctxDone /\ ~panicked
    /\ wNext > rev
    /\ wbuf = <<>> /\ ch = <<>> /\ existing = <<>>

\* the consumer's last event of key k tells the store's current state of k
TellsStore(k) ==
    IF kv[k] = NoKV
    THEN lastEv[k].type \in {"NONE", "DELETED"}
    ELSE lastEv[k].type \in {"ADDED", "MODIFIED"} /\ lastEv[k].value = kv[k].value

\* C1: gap-freedom: when the stream of a consumer that called ListAndWatch before
\* the first commit is idle, the last event it received for every key carries the
\* store's current value of the key (no commit between List and Watch is missed)
GapFree == Idle => \A k \in Keys : TellsStore(k)

\* the revision of the last commit to key k (0: none)
LastCommitRev(k) ==
    LET rs == {r \in 2..rev : log[r - 1].key = k}
    IN  IF rs = {} THEN 0 ELSE CHOOSE r \in rs : \A q \in rs : q <= r

\* the session was re-established after a failure and its stream is idle
Reconnected == Idle /\ sessions >= 2

\* key k was put while the session was down and is in the snapshot of the new List
PutDuringDowntime(k) ==
    kv[k] # NoKV /\ lostAt < kv[k].modRev /\ kv[k].modRev <= listRev

\* the consumer got k's final value in an Added/Modified event of the new session
FinalValueSeen(k) ==
    /\ lastEv[k].type \in {"ADDED", "MODIFIED"}
    /\ lastEv[k].value = kv[k].value
    /\ lastEv[k].sess = sessions

\* C2 as stated: after a reconnect the consumer has received at least one Error
\* event, and for every key put during the downtime an Added/Modified event with
\* the key's final value
ReconnectErrorAndFinal ==
    (Reconnected /\ \E k \in Keys : PutDuringDowntime(k)) =>
        /\ errRecv >= 1
        /\ \A k \in Keys : PutDuringDowntime(k) => FinalValueSeen(k)

\* C2, amended: the Error event is best effort: after a reconnect the consumer has
\* received one unless an attempt to send it found the events channel full; the
\* final value of every key put during the downtime has been received
ReconnectFinalBestEffortError ==
    Reconnected =>
        /\ errRecv >= 1 \/ errFull
        /\ \A k \in Keys : PutDuringDowntime(k) => FinalValueSeen(k)

ReconnectWitness ==
    /\ Reconnected /\ errRecv >= 1
    /\ \E k \in Keys : PutDuringDowntime(k) /\ FinalValueSeen(k) /\ lastEv[k].src = "list"

\* C3: a key that was reported to the consumer and deleted while the session was
\* down (absent in the snapshot of the next List) has a Deleted event as the
\* consumer's last event once the new session is idle
DeletedAfterReconnect ==
    Reconnected =>
        \A k \in Keys :
            (/\ kv[k] = NoKV /\ lastEv[k] # NoEv
             /\ lostAt < LastCommitRev(k) /\ LastCommitRev(k) <= listRev)
            => lastEv[k].type = "DELETED"

\* the events of the store watch on their way to the consumer, oldest first
Pipeline ==
    LET got == SelectSeq([i \in 1..Len(KeyOrder) |-> lastEv[KeyOrder[i]]],
                         LAMBDA e : e.src = "watch" /\ e.sess = sessions)
    IN  got \o SelectSeq(ch, LAMBDA e : e.src = "watch" /\ e.sess = sessions)
            \o SelectSeq(wbuf, LAMBDA e : e.src = "watch")

\* the event tells the commit of its revision: type, key and value
TellsCommit(e) ==
    LET c == log[e.rev - 1] IN
    /\ e.key = c.key
    /\ e.type = (IF c.type = "DELETE" THEN "DELETED"
                 ELSE IF c.hadPrev THEN "MODIFIED" ELSE "ADDED")
    /\ c.type = "PUT" => e.value = c.value

\* C4: in one watch session a put without previous value arrives as Added, a put
\* over a value as Modified, a delete as Deleted, with the key and the new value,
\* and the events of one key arrive in commit order
WatchEventsFaithful ==
    /\ \A i \in 1..Len(Pipeline) : TellsCommit(Pipeline[i])
    /\ \A i, j \in 1..Len(Pipeline) :
          (i < j /\ Pipeline[i].key = Pipeline[j].key) => Pipeline[i].rev < Pipeline[j].rev

WatchEventsWitness ==
    /\ watchRev = 2 /\ rev >= 4
    /\ log[1].type = "PUT" /\ log[2].type = "PUT" /\ log[3].type = "DELETE"
    /\ \E k \in Keys : /\ lastEv[k].src = "watch" /\ lastEv[k].type = "DELETED"
                       /\ lastEv[k].rev = 4

\* C5: when cancel has returned, the loop has exited, the etcd client is released
\* and the events channel and done are closed; a second call of cancel finds done
\* closed, so it does not block
CancelReturnsAfterCleanup ==
    cancelPc \in {"returned", "waiting2", "returned2"} =>
        /\ pc = "exited"
        /\ etcdCli = "nil" /\ wchan \notin {"open", "err"}
        /\ chClosed /\ doneClosed

CancelTwiceWitness ==
    /\ cancelPc = "returned2" /\ pc = "exited" /\ chClosed /\ sessions >= 1

\* C6: once the context is cancelled the loop goroutine can take its next step in
\* every state until it has closed done: nothing stops it before cancel() returns
CancelNeverStuck == (ctxDone /\ ~doneClosed) => ENABLED LoopStep

(***************************************************************************)
(* Properties of the registries.                                           *)
(***************************************************************************)
SuccessfulCreate(c, name) ==
    c.pc = "done" /\ c.op = "Create" /\ c.name = name /\ c.res = "ok"

\* C8: of two Create calls with the same name that overlap in time on one registry
\* instance, at most one returns success
AtMostOneCreateSucceeds ==
    \A t, u \in Threads, name \in Names :
        (t # u /\ overlap) => ~(SuccessfulCreate(th[t], name) /\ SuccessfulCreate(th[u], name))

\* C9: a step of Create whose storage.Get finds an object under the key returns
\* already-exists and leaves the store as it is
CreateOnExistingStep(t) ==
    (/\ th[t].pc = "call" /\ th[t].op = "Create" /\ th'[t] # th[t]
     /\ Key(regKind, th[t].name) \in DOMAIN st)
    => (th'[t].pc = "done" /\ th'[t].res = "exists" /\ st' = st)

CreateOnExistingFails == [][\A t \in Threads : CreateOnExistingStep(t)]_vars

CreateOnExistingWitness ==
    \E t \in Threads :
        /\ th[t].pc = "done" /\ th[t].op = "Create" /\ th[t].res = "exists"
        /\ Key(regKind, th[t].name) \in DOMAIN st

\* C10: Get(name) returns the object of the most recent successful Create or Update
\* of the name, and not-found when there is none or the name was deleted since
RefinesNameMap ==
    \A t \in Threads :
        (th[t].pc = "done" /\ th[t].op = "Get") =>
            IF th[t].exp = NoObj
            THEN th[t].res = "notfound"
            ELSE th[t].res = "ok" /\ th[t].got = th[t].exp

\* a step of Update(obj) that finds no object under the key of obj's name
UpdateOfAbsent(t) ==
    /\ th[t].pc = "call" /\ th[t].op = "Update" /\ th'[t] # th[t]
    /\ Key(regKind, th[t].name) \notin DOMAIN st

\* the step stores the object and the call succeeds
Upserts(t) ==
    /\ th'[t].pc = "done" /\ th'[t].res = "ok"
    /\ Stored(regKind, Key(regKind, th[t].name))' = th[t].obj

\* C11 as stated: in every registry Update of a name that is absent from the store
\* succeeds and stores the object
UpdateUpsertsEverywhere ==
    [][\A t \in Threads : UpdateOfAbsent(t) => Upserts(t)]_vars

\* C11, amended: PodRegistry and NodeRegistry upsert; ReplicaSetRegistry.Update of
\* an absent name returns not-found and leaves the store as it is
UpdateUpsertsButReplicaSet ==
    [][\A t \in Threads :
          UpdateOfAbsent(t) =>
              IF regKind = "ReplicaSet"
              THEN th'[t].pc = "done" /\ th'[t].res = "notfound" /\ st' = st
              ELSE Upserts(t)]_vars

UpdateOfAbsentWitness ==
    \E t \in Threads :
        /\ regKind = "Node" /\ th[t].pc = "done" /\ th[t].op = "Update"
        /\ th[t].res = "ok" /\ th[t].was = NoObj
        /\ Stored(regKind, Key(regKind, th[t].name)) = th[t].obj

\* C12: every Delete succeeds and the name's key is absent right after it, whether
\* or not the name was present: Delete(name); Delete(name) succeeds both times
DeleteIdempotent ==
    [][\A t \in Threads :
          (th[t].pc = "call" /\ th[t].op = "Delete" /\ th'[t] # th[t]) =>
              /\ th'[t].pc = "done" /\ th'[t].res = "ok"
              /\ Key(regKind, th[t].name) \notin DOMAIN st']_vars

\* two Deletes of one name in a row: the first found the object, the second none
DeleteTwiceWitness ==
    \E t, u \in Threads, name \in Names :
        /\ t # u
        /\ th[t].pc = "done" /\ th[t].op = "Delete" /\ th[t].name = name
        /\ th[t].res = "ok" /\ th[t].was # NoObj
        /\ th[u].pc = "done" /\ th[u].op = "Delete" /\ th[u].name = name
        /\ th[u].res = "ok" /\ th[u].was = NoObj
        /\ Key(regKind, name) \notin DOMAIN st

(***************************************************************************)
(* Properties of the replica set controller.                               *)
(***************************************************************************)
StoredReplicas(s, name) == Decode("ReplicaSet", s[Key("ReplicaSet", name)]).replicas

\* C7: the controller's status write leaves spec.replicas of the stored replica set
\* as the last committed update set it (no update is lost to a stale read)
StatusWriteKeepsSpec ==
    [][(rc.pc = "store" /\ rc'.pc # "store") =>
          StoredReplicas(st', rc.currentRS.name) = StoredReplicas(st, rc.currentRS.name)]_vars

StoredStatus(s, name) == Decode("ReplicaSet", s[Key("ReplicaSet", name)]).statusReplicas

\* Reconcile returns without error: the step that ends its status write
ReconcileReturns == rc.pc = "store" /\ rc'.pc # "store"

\* C13: when Reconcile(rs) returns without error, and no other caller has written
\* since it began, the stored rs.status.replicas is the number of active pods in
\* the store that rs owns
ReconcileStatusIsCount ==
    [][(ReconcileReturns /\ lastRun # NoRun) =>
          StoredStatus(st', rc.currentRS.name)
              = currentPodCount(rc.currentRS, StorageList("Pod", podPrefix))]_vars

\* C14: a Reconcile(rs) that follows a Reconcile(rs), with no write of another
\* caller since the first began, ends with the pods and the status.replicas the
\* first ended with
ReconcileIdempotent ==
    [][(ReconcileReturns /\ lastRun.state = "done" /\ lastRun.name = rc.currentRS.name) =>
          /\ StorageList("Pod", podPrefix)' = lastRun.pods
          /\ StoredStatus(st', rc.currentRS.name)
                = lastRun.status]_vars

\* the second of two undisturbed runs has ended; the first had created a pod
ReconcileTwiceWitness ==
    /\ lastRun.state = "done" /\ lastRun.status >= 1 /\ lastRun.pods # {}
    /\ rc.pc = "store" /\ rc.currentRS.name = lastRun.name

\* C15: the controller is never stopped by a failure of List or Reconcile (its
\* context is not cancelled here): it goes on to the next tick
ControllerSurvivesErrors == rc.pc # "fatal"

\* C16: the count Reconcile takes from the list is the number of listed pods whose
\* name has the replica set's name as prefix and whose status is not Failed
CountsNotFailedOwned ==
    [][(rc.pc = "list" /\ rc'.pc # "list") =>
          rc'.count = Cardinality({p \in StorageList("Pod", podPrefix) :
                                      /\ HasPrefix(p.name, rc.currentRS.name)
                                      /\ p.status # "Failed"})]_vars

(***************************************************************************)
(* Properties of the scheduler.                                            *)
(***************************************************************************)
\* the scheduler writes a pod to the store
SchedWrites == sc.pc = "bind" /\ sc' # sc

\* the key of the pod the scheduler writes next
BindKey == Key("Pod", Head(sc.pods).name)

\* C17: the scheduler never writes a pod from Scheduled back to Pending, and the
\* pod it assigns a node to is Pending in the store at the time of the write
SchedulingMonotone ==
    [][SchedWrites =>
          /\ BindKey \in DOMAIN st
          /\ Decode("Pod", st[BindKey]).status = "Unassigned"
          /\ Decode("Pod", st'[BindKey]).status # "Unassigned"]_vars

\* C18: every stored pod with status Pending has an empty nodeName and every
\* stored pod with status Scheduled or later has a non-empty nodeName
PodBindingInvariant ==
    \A p \in StorageList("Pod", podPrefix) :
        /\ p.status = "Unassigned" => p.nodeName = <<>>
        /\ p.status \in {"Assigned"} \cup PodStatuses => p.nodeName # <<>>

\* C19: a pass that found nodes writes every pod it listed as Pending, in list
\* order, with status Scheduled and the name of one of the nodes it listed, and
\* ends after the last of them
PassBindsEveryPendingPod ==
    /\ [](sc.pc = "bind" => sc.nodes # {} /\ sc.pods # <<>>)
    /\ [][SchedWrites =>
            /\ Decode("Pod", st'[BindKey]).name = Head(sc.pods).name
            /\ Decode("Pod", st'[BindKey]).status = "Assigned"
            /\ Decode("Pod", st'[BindKey]).nodeName \in {n.name : n \in sc.nodes}
            /\ sc'.pods = Tail(sc.pods)
            /\ sc'.pc = (IF Tail(sc.pods) = <<>> THEN "idle" ELSE "bind")]_vars

\* a pass over two pending pods and two nodes has bound both pods
PassBindsWitness ==
    /\ sc.pc = "idle" /\ Cardinality(ListNodes) = 2
    /\ Cardinality({p \in StorageList("Pod", podPrefix) :
                       p.status = "Assigned" /\ p.nodeName = <<"b">>}) = 2

\* C20: a pass that lists no node fails with no-nodes-available and writes
\* nothing, and as long as no node was ever registered no step of the scheduler
\* changes the store: a pending pod stays Pending
NoNodesNoBinding ==
    /\ [][(sc.pc = "nodes" /\ sc' # sc /\ ListNodes = {}) =>
            sc'.pc = "idle" /\ sc'.err = "nonodes" /\ st' = st]_vars
    /\ [][(sc' # sc /\ ~nodeSeen) => st' = st]_vars

\* a pass has failed with no-nodes-available while a pending pod waits
NoNodesWitness ==
    /\ ~nodeSeen /\ sc.pc = "idle" /\ sc.err = "nonodes"
    /\ ListUnassignedPods # {}

(***************************************************************************)
(* Properties of the kubelet and of the API server.                        *)
(***************************************************************************)
\* C21: a kubelet launches containers only for pods bound to its own node: every
\* pod it has run runPod for carries its nodeName, never an empty or another one
KubeletLaunchesOwnPods == \A p \in kubelet.launched : p.nodeName = KubeletNode

Attempts(name) == IF name \in DOMAIN kubelet.attempts THEN kubelet.attempts[name] ELSE 0

\* C22: at-least-once launch: when the pull or the start of a pod's containers has
\* failed, the kubelet eventually launches that pod's containers once more
LaunchRetried ==
    \A name \in ClientNames : [](name \in kubelet.failed => <>(Attempts(name) >= 2))

\* C23: Start does not give up after the first failed registration: when it has
\* returned an error, registerNode has posted the node at least twice
RegistrationRetried == kubelet.pc = "failed" => kubelet.posts >= 2

\* C24: POST /pods for a name that exists writes exactly one response, 409 with
\* the error, and leaves the store as it is
CreateExistingAnswersConflict ==
    [][(apiSrv' # apiSrv /\ apiSrv'.req = "CreatePod" /\ apiSrv'.existed) =>
          /\ apiSrv'.writes = <<Written(409, ErrorEntity)>>
          /\ st' = st]_vars

(***************************************************************************)
(* More properties of ListWatch, EtcdStorage.Watch and the backoff.        *)
(***************************************************************************)
\* C25: every event on the events channel, Error events included, passes
\* Event.validate: non-empty Type, the watcher's Prefix, and a Key unless it is
\* an Error event
DeliveredEventsValid == \A i \in 1..Len(ch) : validate(ch[i])

\* the value of the key of commit r right before commit r (0: no value)
PrevValue(r) ==
    LET qs == {q \in 2..(r - 1) : log[q - 1].key = log[r - 1].key}
        last == CHOOSE q \in qs : \A x \in qs : x <= q
    IN  IF qs = {} THEN 0
        ELSE IF log[last - 1].type = "PUT" THEN log[last - 1].value ELSE 0

\* the WatchEvent e tells commit r
TellsCommitWithOld(e, r) ==
    LET c == log[r - 1] IN
    /\ e.key = c.key
    /\ e.oldValue = PrevValue(r)
    /\ IF c.type = "PUT"
       THEN /\ e.type = (IF PrevValue(r) = 0 THEN "Add" ELSE "Update")
            /\ e.value = c.value
       ELSE /\ e.type = "Delete"
            /\ e.value = 0 /\ e.oldValue # 0

\* the events channel is full
ChannelFull == Len(ch) >= EventChannelBuffer

\* the loop is about to send a data event
SendsDataEvent ==
    \/ pc = "list_send"
    \/ pc = "watching" /\ wbuf # <<>> /\ Head(wbuf).type # "ERROR"

\* C26: backpressure: while the events channel is full and the context is not
\* cancelled, the sender of a data event cannot take a step (it blocks), and every
\* step that takes a listed or watched data event off the sender's hands puts it
\* on the events channel unless the context is cancelled
BackpressureBlocks ==
    /\ []((SendsDataEvent /\ ChannelFull /\ ~ctxDone) => ~ENABLED (ListSend \/ Forward))
    /\ [][(pc = "list_send" /\ existing' # existing) =>
            (ch' = Append(ch, Head(existing)) \/ ctxDone)]_vars
    /\ [][(pc = "watching" /\ wbuf # <<>> /\ Head(wbuf).type # "ERROR"
                           /\ wbuf' = Tail(wbuf)) =>
            (ch' = Append(ch, Head(wbuf)) \/ ctxDone)]_vars

\* a sender that was blocked on the full channel has delivered its event: the
\* consumer holds a watched event and the next watched one waits behind a full channel
BackpressureWitness ==
    /\ SendsDataEvent /\ ChannelFull /\ ~ctxDone /\ pc = "watching"
    /\ \E k \in Keys : lastEv[k].src = "watch"
    /\ ch[1].src = "watch"

\* C27: the i-th event a Storage.Watch delivers tells the i-th commit after the
\* call: a put of an absent key as Add with the value and no previous value, a
\* put of a present key as Update with the new and the previous value, a delete
\* as Delete with the previous and no new value
StorageWatchFaithful ==
    \A i \in 1..Len(sw.out) : TellsCommitWithOld(sw.out[i], sw.start + i)

StorageWatchWitness ==
    /\ Len(sw.out) >= 3
    /\ sw.out[1].type = "Add" /\ sw.out[2].type = "Update" /\ sw.out[3].type = "Delete"
    /\ sw.out[2].oldValue = sw.out[1].value /\ sw.out[3].oldValue = sw.out[2].value

RECURSIVE Power(_, _)
Power(b, e) == IF e = 0 THEN 1 ELSE b * Power(b, e - 1)

\* C28: the k-th wait of a call of WithExponentialBackoff whose operation keeps
\* failing is InitialDelay * Multiplier^(k-1) capped at MaxDelay, so no wait is
\* longer than MaxDelay
BackoffWaitsCapped ==
    \A i \in 1..Len(bo.waits) :
        LET d == bo.opts.InitialDelay * Power(bo.opts.Multiplier, i - 1)
        IN  /\ bo.waits[i] = (IF d > bo.opts.MaxDelay THEN bo.opts.MaxDelay ELSE d)
            /\ bo.waits[i] <= bo.opts.MaxDelay

\* C29: the store watch of a session starts at R + 1, R being the revision of the
\* response of the List that produced the session's initial events
WatchStartsAfterList == pc = "watching" => watchRev = listRev + 1

\* a session watches the store with an open client and an open store watch
Watching == pc = "watching" /\ wchan = "open" /\ etcdCli = "open"

ErrorSendNeverBlocks ==
    /\ []((pc \in {"try_err", "hwc"} /\ ~panicked) =>
            /\ ENABLED (TryToSendErrorEvent \/ HandleWatchChannelClose)
            /\ errI < defaultErrorRetryAttempts
            /\ hwcI < 3)
    /\ [][(TryToSendErrorEvent /\ errI = defaultErrorRetryAttempts - 1 /\ ~HasRoom)
             => (pc' # "try_err" /\ ch' = ch)]_vars
    /\ [][(HandleWatchChannelClose /\ hwcI = 2 /\ ~HasRoom)
             => (pc' = "backoff" /\ ch' = ch /\ etcdCli' # "open")]_vars

\* the loop gave up: the channel is full of data events, no Error event was sent
\* and the loop is in its backoff, with nobody else having tried to send one
ErrorSendGaveUpWitness ==
    /\ pc = "backoff" /\ ~ctxDone /\ ~panicked
    /\ errFull /\ sessions = 0 /\ errRecv = 0
    /\ Len(ch) = EventChannelBuffer
    /\ \A i \in 1..Len(ch) : ch[i].type # "ERROR"

\* the step with which Reconcile leaves its creation loops
CreationEnds == rc.pc = "create" /\ rc'.pc = "update"

UnassignedIsEmptyNodeName ==
    LET pods == StorageList("Pod", podPrefix)
    IN  /\ ListUnassignedPods = {p \in pods : p.nodeName = <<>>}
        /\ {p \in pods : p.nodeName = <<>>} = {p \in pods : p.status = "Unassigned"}

\* C34: reading a pod or a node answers not-found (404) only when the key is
\* absent from the store; a storage fault while reading an object that exists is
\* answered as a storage error (500), never as not-found.
ReadNotFoundOnlyWhenAbsent ==
    [][\A kind \in {"Pod", "Node"}, name \in ClientNames, fault \in StorageFaults :
          ApiGet(kind, name, fault) =>
              LET status == apiSrv'.writes[1].status
                  present == StorageFound(Key(kind, name))
              IN  /\ status = 404 => ~present
                  /\ (present /\ fault # "none") => status = 500]_vars

\* C36: Create never overwrites an object that is stored under the same name,
\* also when its existence-check Get fails with a storage or decoding error
\* instead of not-found: it then returns an error and writes nothing.
CreateNeverOverwrites ==
    [][\A obj \in PostedObjects, fault \in StorageFaults, putOk \in BOOLEAN :
          (ApiCreate(obj, fault, putOk) /\ StorageFound(Key(obj.kind, obj.name))) =>
              /\ st' = st
              /\ apiSrv'.writes[1].status # 201]_vars

\* C35: no goroutine of a session sends on the events channel after handleCleanup
\* has closed it: the connection-lost notifier's send happens before close(ch) or
\* not at all (a send on the closed channel panics).
NoSendAfterClose == ~(chClosed /\ panicked)

\* C37: once a client's DeletePod has committed, no later UpdatePod of a writer
\* that holds a copy read before the delete (the scheduler binding a pod it
\* listed as pending) makes the pod reappear in the store.
DeletedPodStaysDeleted ==
    [][SchedBind =>
          \A name \in ClientNames :
              ~StorageFound(Key("Pod", name)) => Key("Pod", name) \notin DOMAIN st']_vars

\* the pods whose names the generator made from the replica set's name: the pods
\* the controller created for it
CreatedFor(rs, allPods) ==
    {p \in allPods : \E n \in 1..MaxPods : p.name = GenerateName(rs.name, n)}

\* C38: with two replica sets A and B, A's name a proper prefix of B's, the pods
\* the controller created for B are not counted as owned by A: the count
\* Reconcile computes for a replica set is the number of active pods created
\* for it, so that reconciling A creates A's own desired number of pods.
CountsOwnPodsOnly ==
    [][(rc.pc = "list" /\ rc'.pc # "list") =>
          LET allPods == StorageList("Pod", podPrefix)
              own == {p \in CreatedFor(rc.currentRS, allPods) : isActive(p)}
          IN  /\ rc'.count = Cardinality(own)
              /\ rc'.toCreate = IF Cardinality(own) < rc.currentRS.replicas
                                THEN (rc.currentRS.replicas - Cardinality(own))
                                         * rc.currentRS.containers
                                ELSE 0]_vars

\* C39: after a session has re-listed and resumed watching, the wait before the
\* retry that follows the next failure starts again at RetryOpts.InitialDelay:
\* while a resumed session watches, the delay WithExponentialBackoff will wait
\* after the operation's next error is the initial one.
BackoffRestartsAfterResume ==
    (pc = "watching" /\ sessions >= 2) => currentDelay = InitialDelay

\* C40: when a watch session ends, the goroutine started by Watch terminates; it
\* is never left blocked for ever on a send to the session's buffer: once the
\* loop goroutine, the buffer's only reader, has exited, the goroutine has ended
\* or has a step to take.
WatchGoroutineEnds ==
    (pc = "exited" /\ conv # "none" /\ ~panicked) =>
        \/ conv = "done"
        \/ ENABLED (ConvDeliver \/ ConvBlock \/ ConvUnblock \/ ConvErr \/ ConvClose)

====
